---- MODULE Spec2Model ----
(***************************************************************************)
(* The project-templating pipeline of the pnpm-monorepo template:          *)
(* etc/bin/transform_project.sh, etc/bin/randomport, etc/bin/emoji-favicon,*)
(* machine_setup.sh, clone_template.sh, install_deps.sh, verify_setup.sh,  *)
(* the full-setup script, and the files of the working copy they rewrite;  *)
(* and the application the template holds: the frontend page (main.tsx,    *)
(* App.tsx), the backend process (index.ts), the two loggers, and the      *)
(* queue and document-store modules of docs/extensions.                    *)
(*                                                                         *)
(* Text.  A file is a sequence of lines and a line a sequence of tokens    *)
(* (strings).  The tokenisation keeps every occurrence of a pattern of the *)
(* scripts ("@my-org", "/", "my-project", "My project", "BACKEND_PORT=",   *)
(* ...) and every character sed treats specially in a replacement ("/",    *)
(* "&", "\", "|") as a token of its own; all other tokens are text that    *)
(* contains none of them.  sed is BSD sed (`sed -i ''`), as the scripts    *)
(* are written for.                                                        *)
(***************************************************************************)
EXTENDS Integers, Sequences, FiniteSets, TLC

VARIABLES
  args,           \* the positional arguments of the transform invocation
  SLUG, DISPLAY_NAME, DESCRIPTION, EMOJI,
  BACKEND_PORT, FRONTEND_PORT, FAVICON_B64,
  pc,             \* the line of transform_project.sh about to run
  status,         \* exit status of the transform (-1 while it runs)
  out,            \* what the transform printed (lines)
  fs,             \* the working copy: file name -> lines
  fs0,            \* the working copy when the current invocation started
                  \* (in a re-run: when the previous one ended)
  runs,           \* completed (exit 0) invocations so far
  RANDOM, PORT,   \* etc/bin/randomport run on its own: the shell's RANDOM, PORT
  rpc,            \* the line of randomport about to run
  oargs,          \* the positional arguments of the full-setup script
  opc, ostatus,   \* the full-setup script: line about to run, exit status
  ipc, istatus,   \* install_deps.sh: line about to run, exit status
  vpc, vstatus,   \* verify_setup.sh: line about to run, exit status
  log,            \* the external commands run so far: <<command, succeeded>>
  services,       \* the dev services zap manages: "up" or "down"
  installed,      \* the tools `command -v` finds on this machine
  mpc, mstatus,   \* machine_setup.sh: line about to run, exit status
  node_ok, pnpm_ok, zapper_ok, any_failures,
  gpc, gstatus,   \* clone_template.sh: line about to run, exit status
  fpc,            \* the browser page: "loading", "listening", "rendered", "crashed"
  strict,         \* a development build, where StrictMode re-runs effects
  queries,        \* the helloWorld queries issued: "pending", "resolved", "rejected"
  message,        \* App's state `message`, shown in the <p>
  console,        \* the records the frontend logger wrote to the console
  bpc,            \* the backend process: "loading", "running", "exited"
  LOG_LEVEL,      \* the backend's environment variable
  records,        \* the records the backend logger wrote
  replies,        \* <<exception, reply>> for each request error handled
  uncaught,       \* the event type of each uncaught failure that happened
  baseMeta, childMeta, meta,   \* a logger's, its child's and a call's metadata
  eventType, details,          \* the event type and details of the call
  queueConnection, myQueue, worker,  \* the module variables of queue.ts,
                  \* queues.ts and worker.ts (0 is null)
  connections,    \* every Redis connection created: "open", "closing", "closed"
  cpc,            \* the connection whose quit() closeQueueConnection awaits
  spc,            \* stopWorker: "idle", or the await it is at
  client,         \* the module variable of db.ts (0 is null)
  clients,        \* every MongoClient created: its connection state
  calls,          \* the getMongoClient calls: "connecting", or how they settled
  dpc,            \* the client whose close() closeDb awaits
  created         \* MongoClients created since the last closeDb call ended

\* the variables of a run of etc/bin/randomport on its own
rvars == <<RANDOM, PORT, rpc>>

\* the variables of the full setup, install_deps.sh and verify_setup.sh
svars == <<oargs, opc, ostatus, ipc, istatus, vpc, vstatus, log, services>>

\* the variables of a run of machine_setup.sh
mvars == <<installed, mpc, mstatus, node_ok, pnpm_ok, zapper_ok, any_failures>>

\* the variables of a run of clone_template.sh on its own
gvars == <<gpc, gstatus>>

\* the variables of the frontend page, of the backend process, of a logger
\* call, of the queue modules and of the document-store module
fvars == <<fpc, strict, queries, message, console>>
bvars == <<bpc, LOG_LEVEL, records, replies, uncaught>>
lvars == <<baseMeta, childMeta, meta, eventType, details>>
qvars == <<queueConnection, myQueue, worker, connections, cpc, spc>>
dvars == <<client, clients, calls, dpc, created>>
avars == <<fvars, bvars, lvars, qvars, dvars>>

\* the variables transform_project.sh does not touch
others == <<rvars, svars, mvars, gvars, avars>>

vars == <<args, SLUG, DISPLAY_NAME, DESCRIPTION, EMOJI, BACKEND_PORT,
          FRONTEND_PORT, FAVICON_B64, pc, status, out, fs, fs0, runs, rvars,
          svars, mvars, gvars, avars>>

-----------------------------------------------------------------------------
(* Bounds *)

MaxArgs == 5
MaxRuns == 2

-----------------------------------------------------------------------------
(* sed *)

Unset == <<"(unset)">>

\* line[i..] starts with pat
Match(line, pat, i) ==
  /\ i + Len(pat) - 1 <= Len(line)
  /\ \A k \in 1..Len(pat) : line[i + k - 1] = pat[k]

\* The replacement text of an s command as sed reads it between the
\* delimiters: "\" makes the next character literal, an unescaped delimiter
\* ends the command early (the rest is read as flags: an error), a trailing
\* "\" escapes the closing delimiter (unterminated command), and "&" stands
\* for the matched text.
RECURSIVE ExpandRhs(_, _, _)
ExpandRhs(rhs, delim, matched) ==
  IF rhs = <<>> THEN [ok |-> TRUE, text |-> <<>>]
  ELSE IF Head(rhs) = "\\" THEN
    IF Len(rhs) = 1 THEN [ok |-> FALSE, text |-> <<>>]
    ELSE LET r == ExpandRhs(SubSeq(rhs, 3, Len(rhs)), delim, matched)
         IN  [ok |-> r.ok, text |-> <<rhs[2]>> \o r.text]
  ELSE IF Head(rhs) = delim THEN [ok |-> FALSE, text |-> <<>>]
  ELSE LET r == ExpandRhs(Tail(rhs), delim, matched)
       IN  [ok |-> r.ok,
            text |-> (IF Head(rhs) = "&" THEN matched ELSE <<Head(rhs)>>) \o r.text]

\* s/pat/rep/g on one line: leftmost, non-overlapping, never rescanning
\* the text it has put in.
RECURSIVE SubstGlobal(_, _, _, _)
SubstGlobal(line, pat, rep, i) ==
  IF i > Len(line) THEN <<>>
  ELSE IF Match(line, pat, i)
    THEN rep \o SubstGlobal(line, pat, rep, i + Len(pat))
    ELSE <<line[i]>> \o SubstGlobal(line, pat, rep, i + 1)

\* first position of tok in line, 0 if none
FirstIndex(line, tok) ==
  IF \E i \in 1..Len(line) : line[i] = tok
    THEN CHOOSE i \in 1..Len(line) :
           line[i] = tok /\ \A j \in 1..(i - 1) : line[j] # tok
    ELSE 0

\* s/KEY.*/rhs/ on one line: the leftmost KEY and everything after it
SubstToEol(line, key, rhs, delim) ==
  LET i == FirstIndex(line, key)
  IN  IF i = 0 THEN line
      ELSE SubSeq(line, 1, i - 1)
             \o ExpandRhs(rhs, delim, SubSeq(line, i, Len(line))).text

LinkOpen == "<link rel=\"icon\" href=\""
Quote == "\""

\* s|<link rel="icon" href="[^"]*"|rhs| on one line: the leftmost opening
\* followed by quote-free text and a closing quote
HrefEnd(line, i) ==
  IF \E j \in (i + 1)..Len(line) : line[j] = Quote
    THEN CHOOSE j \in (i + 1)..Len(line) :
           line[j] = Quote /\ \A k \in (i + 1)..(j - 1) : line[k] # Quote
    ELSE 0

HrefMatch(line, i) ==
  /\ line[i] = LinkOpen
  /\ HrefEnd(line, i) # 0
  /\ \A k \in (i + 1)..(HrefEnd(line, i) - 1) : line[k] # LinkOpen

SubstHref(line, rhs, delim) ==
  IF \E i \in 1..Len(line) : HrefMatch(line, i)
    THEN LET i == CHOOSE i \in 1..Len(line) :
                    HrefMatch(line, i) /\ \A j \in 1..(i - 1) : ~HrefMatch(line, j)
             j == HrefEnd(line, i)
         IN  SubSeq(line, 1, i - 1)
               \o ExpandRhs(rhs, delim, SubSeq(line, i, j)).text
               \o SubSeq(line, j + 1, Len(line))
    ELSE line

\* The three shapes of s command the scripts use.
\* cmd.kind: "g" (literal pattern, global), "eol" (KEY.*), "href".
SedLine(line, cmd) ==
  CASE cmd.kind = "g" ->
         SubstGlobal(line, cmd.pat, ExpandRhs(cmd.rhs, cmd.delim, cmd.pat).text, 1)
    [] cmd.kind = "eol" -> SubstToEol(line, cmd.pat[1], cmd.rhs, cmd.delim)
    [] cmd.kind = "href" -> SubstHref(line, cmd.rhs, cmd.delim)

SedOk(cmd) == ExpandRhs(cmd.rhs, cmd.delim, <<>>).ok

SedText(lines, cmd) == [i \in 1..Len(lines) |-> SedLine(lines[i], cmd)]

\* sed -i '' cmd file...: fails, touching nothing, when the command does not
\* parse; fails on a file that does not exist.
SedFails(files, cmd) == ~SedOk(cmd) \/ \E f \in files : f \notin DOMAIN fs

SedInPlace(files, cmd) ==
  [f \in DOMAIN fs |-> IF f \in files THEN SedText(fs[f], cmd) ELSE fs[f]]

-----------------------------------------------------------------------------
(* etc/bin/randomport and etc/bin/emoji-favicon *)

PortBase == 1024
PortSpread == 8976
\* bash: RANDOM is an integer in 0..32767
RandomMax == 32767

\* the spread one too wide
randomport_WideSpread(r) == PortBase + (r % (PortSpread + 1))

randomport(r) == PortBase + (r % PortSpread)

\* The data URI emoji-favicon prints for a glyph: "data:image/svg+xml;base64,"
\* followed by the base64 of the SVG that embeds it ("rocket" is U+1F680,
\* "unicorn" is U+1F984).
emoji_favicon(emoji) ==
  <<"data:image", "/", "svg+xml;base64,">> \o
  ( CASE emoji = <<"rocket">> ->
           <<"PHN2ZyB4bWxucz0iaHR0cDovL3d3dy53My5vcmcvMjAwMC9zdmciIHZpZXdCb3g9IjAgMCAxMDAgMTAwIj4KICA8dGV4dCB5PSI3NSIgZm9udC1zaXplPSI4MCI+8J+agDwvdGV4dD4KPC9zdmc+">>
      [] emoji = <<"unicorn">> ->
           <<"PHN2ZyB4bWxucz0iaHR0cDovL3d3dy53My5vcmcvMjAwMC9zdmciIHZpZXdCb3g9IjAgMCAxMDAgMTAwIj4KICA8dGV4dCB5PSI3NSIgZm9udC1zaXplPSI4MCI+8J+mhDwvdGV4dD4KPC9zdmc+">>
      [] OTHER -> <<"base64(svg(">> \o emoji \o <<"))">> )

-----------------------------------------------------------------------------
(* The working copy *)

RootPackageJson == <<"package.json">>
CorePackageJson == <<"packages/core/", "package.json">>
HelloWorldTs == <<"packages/trpc/src/procedures/", "helloWorld", ".ts">>
CoreIndexTs == <<"packages/core/src/", "index", ".ts">>
AppTestTsx == <<"apps/frontend/src/", "App.test", ".tsx">>
IndexHtml == <<"apps/frontend/", "index.html">>
ZapYaml == <<"zap.yaml">>
Dockerfile == <<"apps/backend/", "Dockerfile">>
EnvLocal == <<".env.local">>
InstallDepsSh == <<"etc/bin/", "install_deps.sh">>
TrpcMd == <<"docs/", "trpc.md">>
EmojiFavicon == <<"etc/bin/", "emoji-favicon">>
SetupGuide == <<"PROJECT_SETUP_GUIDE.md">>
Workspace(slug) == slug \o <<".code-workspace">>
TemplateWorkspace == Workspace(<<"my-project">>)

Pkg(suffix) == <<"@my-org", "/", "my-project">> \o suffix

\* packages/trpc/src/procedures/helloWorld.ts, its imports
HelloWorldTsText ==
  << <<"import { message } from \"">> \o Pkg(<<"-core", "\";">>),
     <<"import type { TRPCInstance } from \"">> \o Pkg(<<"-server", "\";">>) >>

\* apps/frontend/src/App.test.tsx, the lines with the display name
AppTestTsxText ==
  << <<"message: \"", "My project", "\",">>,
     <<"expect(screen.getByText(\"", "My project", "\")).toBeInTheDocument();">> >>

\* etc/bin/install_deps.sh, the browser installation
InstallDepsShText ==
  << <<"pnpm --filter=">>
       \o Pkg(<<"-e2e-tests", " exec playwright install chromium">>) >>

\* docs/trpc.md, the sentence that names the package
TrpcMdText == << <<"The ">> \o Pkg(<<"-trpc", "package has two entry points:">>) >>

SetupGuideText == << <<"# PNPM Monorepo Template Setup">> >>

\* The files the transform names that the template holds next to these:
\* a manifest per package, the core message, the page, zap.yaml and the
\* backend's Dockerfile, each with the reference the transform rewrites
TemplateManifests ==
     (RootPackageJson :> << <<"\"name\": \"">> \o Pkg(<<"\"">>) >>)
  @@ (CorePackageJson :> << <<"\"name\": \"">> \o Pkg(<<"-core", "\"">>) >>)

TemplateConfig ==
     (CoreIndexTs :> << <<"export const message = \"", "My project", "\";">> >>)
  @@ (IndexHtml :>
        << <<LinkOpen, "data:image", "/", "svg+xml,...", Quote, " />">>,
           <<"<title>", "My project", "</title>">> >>)
  @@ (ZapYaml :>
        << <<"project: ", "my-project">>,
           <<"cmd: pnpm --filter=">> \o Pkg(<<"-backend", " dev">>) >>)
  @@ (Dockerfile :>
        << <<"CMD [\"pnpm\", \"--filter\", \"">> \o Pkg(<<"-backend", "\", \"start\"]">>) >>)

\* The template as checked out, without .env.local
Template ==
     TemplateManifests
  @@ TemplateConfig
  @@ (HelloWorldTs :> HelloWorldTsText)
  @@ (AppTestTsx :> AppTestTsxText)
  @@ (InstallDepsSh :> InstallDepsShText)
  @@ (TrpcMd :> TrpcMdText)
  @@ (SetupGuide :> SetupGuideText)

WorkspaceText == << <<"{ \"folders\": [{ \"path\": \".\" }] }">> >>
EditedWorkspaceText == << <<"{ \"folders\": [{ \"path\": \"apps\" }] }">> >>

IsPackageJson(f) == f[Len(f)] = "package.json"
IsTypeScript(f) == f[Len(f)] \in {".ts", ".tsx"}

\* find . -name package.json -not -path ./node_modules (line 24)
FindPackageJson == {f \in DOMAIN fs : IsPackageJson(f)}
\* find . -name .ts -o -name .tsx files (line 28)
FindTypeScript == {f \in DOMAIN fs : IsTypeScript(f)}

-----------------------------------------------------------------------------
(* etc/bin/transform_project.sh.  pc names the script line about to run;  *)
(* under `set -e` a failing command ends the script with its status.      *)

tstate == <<SLUG, DISPLAY_NAME, DESCRIPTION, EMOJI, BACKEND_PORT,
            FRONTEND_PORT, FAVICON_B64>>

UsageText == <<"Usage: $0 SLUG DISPLAY_NAME DESCRIPTION EMOJI">>
CompleteText == <<"Project transformation complete!">>
NoFaviconText == <<"emoji-favicon script not found, skipping favicon generation">>
BackendPortText(p) == <<"  Backend port: ", ToString(p)>>
FrontendPortText(p) == <<"  Frontend port: ", ToString(p)>>

PackageNameCmd ==
  [kind |-> "g", pat |-> <<"@my-org", "/", "my-project">>,
   rhs |-> <<"@">> \o SLUG, delim |-> "/"]
ProjectRefCmd ==
  [kind |-> "g", pat |-> <<"my-project">>, rhs |-> SLUG, delim |-> "/"]
\* a transform that writes the description where the display name goes
DisplayNameCmd_Description ==
  [kind |-> "g", pat |-> <<"My project">>, rhs |-> DESCRIPTION, delim |-> "/"]
DisplayNameCmd ==
  [kind |-> "g", pat |-> <<"My project">>, rhs |-> DISPLAY_NAME, delim |-> "/"]
BackendPortCmd ==
  [kind |-> "eol", pat |-> <<"BACKEND_PORT=">>,
   rhs |-> <<"BACKEND_PORT=", ToString(BACKEND_PORT)>>, delim |-> "/"]
FrontendPortCmd ==
  [kind |-> "eol", pat |-> <<"FRONTEND_PORT=">>,
   rhs |-> <<"FRONTEND_PORT=", ToString(FRONTEND_PORT)>>, delim |-> "/"]
ApiBaseUrlCmd ==
  [kind |-> "eol", pat |-> <<"VITE_API_BASE_URL=">>,
   rhs |-> <<"VITE_API_BASE_URL=", "http:", "/", "/", "localhost:",
             ToString(BACKEND_PORT)>>,
   delim |-> "|"]
FaviconCmd ==
  [kind |-> "href", pat |-> <<LinkOpen>>,
   rhs |-> <<LinkOpen>> \o FAVICON_B64 \o <<Quote>>, delim |-> "|"]

\* one `sed -i '' cmd file` line of the script
SedStep(line, file, cmd, next) ==
  /\ pc = line
  /\ IF SedFails({file}, cmd)
       THEN /\ pc' = "exit"
            /\ status' = 1
            /\ UNCHANGED fs
       ELSE /\ pc' = next
            /\ fs' = SedInPlace({file}, cmd)
            /\ UNCHANGED status
  /\ UNCHANGED <<args, tstate, out, fs0, runs, others>>

\* one `find ... | xargs sed -i '' cmd` line: xargs runs sed once on the
\* files found (not at all when there are none) and exits non-zero when
\* sed does
XargsSedStep(line, files, cmd, next) ==
  /\ pc = line
  /\ IF files # {} /\ SedFails(files, cmd)
       THEN /\ pc' = "exit"
            /\ status' = 1
            /\ UNCHANGED fs
       ELSE /\ pc' = next
            /\ fs' = SedInPlace(files, cmd)
            /\ UNCHANGED status
  /\ UNCHANGED <<args, tstate, out, fs0, runs, others>>

\* the check written as "fewer than four"
ArityOk_AtLeast(n) == n >= 4

\* lines 5-20
ArityOk(n) == n = 4

CheckArgs ==
  /\ pc = "L5"
  /\ IF ArityOk(Len(args))
       THEN /\ SLUG' = args[1]
            /\ DISPLAY_NAME' = args[2]
            /\ DESCRIPTION' = args[3]
            /\ EMOJI' = args[4]
            /\ pc' = "L24"
            /\ UNCHANGED <<status, out>>
       ELSE /\ out' = Append(out, UsageText)
            /\ pc' = "exit"
            /\ status' = 1
            /\ UNCHANGED <<SLUG, DISPLAY_NAME, DESCRIPTION, EMOJI>>
  /\ UNCHANGED <<args, BACKEND_PORT, FRONTEND_PORT, FAVICON_B64, fs, fs0, runs, others>>

\* line 24
ReplacePackageNames == XargsSedStep("L24", FindPackageJson, PackageNameCmd, "L28")

\* line 28
ReplaceTypeScriptImports == XargsSedStep("L28", FindTypeScript, PackageNameCmd, "L32")

\* line 32
ReplaceProjectReferences == SedStep("L32", ZapYaml, ProjectRefCmd, "L33")

\* mv src dst: fails when src does not exist, when src and dst are the same
\* file, or when dst names a directory that does not exist; otherwise dst
\* becomes src's content, replacing a file already there
MvFails(files, src, dst) ==
  \/ src \notin DOMAIN files
  \/ src = dst
  \/ \E i \in 1..Len(dst) : dst[i] = "/"

Mv(files, src, dst) ==
  [f \in (DOMAIN files \ {src}) \cup {dst} |->
     IF f = dst THEN files[src] ELSE files[f]]

\* line 33: mv ... 2>/dev/null || true
RenameWorkspace ==
  /\ pc = "L33"
  /\ fs' = IF MvFails(fs, TemplateWorkspace, Workspace(SLUG))
             THEN fs
             ELSE Mv(fs, TemplateWorkspace, Workspace(SLUG))
  /\ pc' = "L37"
  /\ UNCHANGED <<args, tstate, status, out, fs0, runs, others>>

\* lines 37-39
ReplaceDisplayNameHtml == SedStep("L37", IndexHtml, DisplayNameCmd, "L38")
ReplaceDisplayNameCore == SedStep("L38", CoreIndexTs, DisplayNameCmd, "L39")
ReplaceDisplayNameTest == SedStep("L39", AppTestTsx, DisplayNameCmd, "L42")

\* line 42
UpdateDockerfile == SedStep("L42", Dockerfile, PackageNameCmd, "L46")

\* lines 46-47: each $(./etc/bin/randomport) is a new shell with its own RANDOM
GenerateBackendPort(draws) ==
  /\ pc = "L46"
  /\ \E r \in draws : BACKEND_PORT' = randomport(r)
  /\ pc' = "L47"
  /\ UNCHANGED <<args, SLUG, DISPLAY_NAME, DESCRIPTION, EMOJI, FRONTEND_PORT,
                 FAVICON_B64, status, out, fs, fs0, runs, others>>

GenerateFrontendPort(draws) ==
  /\ pc = "L47"
  /\ \E r \in draws : FRONTEND_PORT' = randomport(r)
  /\ pc' = "L48"
  /\ UNCHANGED <<args, SLUG, DISPLAY_NAME, DESCRIPTION, EMOJI, BACKEND_PORT,
                 FAVICON_B64, status, out, fs, fs0, runs, others>>

\* lines 48-50
WriteBackendPort == SedStep("L48", EnvLocal, BackendPortCmd, "L49")
WriteFrontendPort == SedStep("L49", EnvLocal, FrontendPortCmd, "L50")
WriteApiBaseUrl == SedStep("L50", EnvLocal, ApiBaseUrlCmd, "L53")

\* lines 53-61
GenerateFavicon ==
  /\ pc = "L53"
  /\ IF EMOJI = <<>>
       THEN UNCHANGED <<FAVICON_B64, fs, out, status>> /\ pc' = "L63"
       ELSE IF EmojiFavicon \notin DOMAIN fs
         THEN /\ out' = Append(out, NoFaviconText)
              /\ pc' = "L63"
              /\ UNCHANGED <<FAVICON_B64, fs, status>>
         ELSE /\ FAVICON_B64' = emoji_favicon(EMOJI)
              /\ LET cmd == [FaviconCmd EXCEPT
                               !.rhs = <<LinkOpen>> \o emoji_favicon(EMOJI) \o <<Quote>>]
                 IN  IF SedFails({IndexHtml}, cmd)
                       THEN pc' = "exit" /\ status' = 1 /\ UNCHANGED fs
                       ELSE pc' = "L63" /\ fs' = SedInPlace({IndexHtml}, cmd)
                                        /\ UNCHANGED status
              /\ UNCHANGED out
  /\ UNCHANGED <<args, SLUG, DISPLAY_NAME, DESCRIPTION, EMOJI, BACKEND_PORT,
                 FRONTEND_PORT, fs0, runs, others>>

\* lines 63-65
Complete ==
  /\ pc = "L63"
  /\ out' = out \o <<CompleteText, BackendPortText(BACKEND_PORT),
                     FrontendPortText(FRONTEND_PORT)>>
  /\ pc' = "exit"
  /\ status' = 0
  /\ runs' = runs + 1
  /\ UNCHANGED <<args, tstate, fs, fs0, others>>

transform_project(draws) ==
  \/ CheckArgs
  \/ ReplacePackageNames
  \/ ReplaceTypeScriptImports
  \/ ReplaceProjectReferences
  \/ RenameWorkspace
  \/ ReplaceDisplayNameHtml
  \/ ReplaceDisplayNameCore
  \/ ReplaceDisplayNameTest
  \/ UpdateDockerfile
  \/ GenerateBackendPort(draws)
  \/ GenerateFrontendPort(draws)
  \/ WriteBackendPort
  \/ WriteFrontendPort
  \/ WriteApiBaseUrl
  \/ GenerateFavicon
  \/ Complete

\* The operator runs the transform again with the same arguments after a
\* run that exited 0.
Rerun ==
  /\ pc = "exit"
  /\ status = 0
  /\ runs < MaxRuns
  /\ pc' = "L5"
  /\ status' = -1
  /\ out' = <<>>
  /\ fs0' = fs
  /\ UNCHANGED <<args, tstate, fs, runs, others>>

-----------------------------------------------------------------------------
(* Inputs *)

Slugs ==
  { <<"acme-app">>, <<"my-project">>, <<"my-project", "-2">>,
    <<"r", "&", "d">>, <<"a", "/", "b">>, <<"a", "\\", "/", "b">> }
DisplayNames ==
  { <<"Acme App">>, <<"My project", " 2">>, <<"R", "&", "D">>, <<"A", "/", "B">> }
Descriptions == { <<"demo">> }
Emojis == { <<>>, <<"rocket">> }

SampleArg(i) ==
  CASE i = 1 -> <<"acme-app">>
    [] i = 2 -> <<"Acme App">>
    [] i = 3 -> <<"demo">>
    [] i = 4 -> <<"rocket">>
    [] OTHER -> <<"extra">>

FullArgs ==
  { <<s, d, c, e>> : s \in Slugs, d \in DisplayNames, c \in Descriptions, e \in Emojis }
WrongArgs == { [i \in 1..n |-> SampleArg(i)] : n \in (0..MaxArgs) \ {4} }

DefaultEnv ==
  << <<"BACKEND_PORT=", "3000">>,
     <<"FRONTEND_PORT=", "5173">>,
     <<"VITE_API_BASE_URL=", "http:", "/", "/", "localhost:", "3000">> >>

\* RANDOM values the port generator is run on in the transform
FixedDraw == {4976}
RandomDraws == {0, 4976, 8976, RandomMax}

\* A working copy: the template, with or without the template's workspace
\* file, a workspace file already named after the slug, the favicon tool
Checkout(slug, env, hasSrc, hasDst, hasTool) ==
     (IF hasDst THEN Workspace(slug) :> EditedWorkspaceText ELSE <<>>)
  @@ (IF hasSrc THEN TemplateWorkspace :> WorkspaceText ELSE <<>>)
  @@ (IF hasTool THEN EmojiFavicon :> << <<"#!/usr/bin/env node">> >> ELSE <<>>)
  @@ (EnvLocal :> env)
  @@ Template

InitRun(a, files, start) ==
  /\ args = a
  /\ SLUG = Unset /\ DISPLAY_NAME = Unset /\ DESCRIPTION = Unset /\ EMOJI = Unset
  /\ BACKEND_PORT = 0 /\ FRONTEND_PORT = 0 /\ FAVICON_B64 = Unset
  /\ pc = start
  /\ status = -1
  /\ out = <<>>
  /\ fs = files
  /\ fs0 = files
  /\ runs = 0

\* no run of randomport on its own
NoRandomport == RANDOM = 0 /\ PORT = 0 /\ rpc = "none"

\* no run of the full setup, install_deps.sh or verify_setup.sh
NoSetup ==
  /\ oargs = <<>> /\ opc = "none" /\ ostatus = -1
  /\ ipc = "none" /\ istatus = -1
  /\ vpc = "none" /\ vstatus = -1
  /\ log = <<>>
  /\ services = "down"

\* no run of machine_setup.sh
NoMachineSetup ==
  /\ installed = {} /\ mpc = "none" /\ mstatus = -1
  /\ node_ok = FALSE /\ pnpm_ok = FALSE /\ zapper_ok = FALSE /\ any_failures = FALSE

\* no run of clone_template.sh on its own
NoClone == gpc = "none" /\ gstatus = -1

\* the application is not running
NoFrontend ==
  /\ fpc = "none" /\ strict = FALSE /\ queries = <<>> /\ message = ""
  /\ console = <<>>
NoBackend ==
  /\ bpc = "none" /\ LOG_LEVEL = "info" /\ records = <<>> /\ replies = {}
  /\ uncaught = <<>>
NoLogger ==
  /\ baseMeta = <<>> /\ childMeta = <<>> /\ meta = <<>>
  /\ eventType = "" /\ details = ""
NoQueue ==
  /\ queueConnection = 0 /\ myQueue = 0 /\ worker = 0 /\ connections = <<>>
  /\ cpc = 0 /\ spc = "none"
NoDb == client = 0 /\ clients = <<>> /\ calls = <<>> /\ dpc = 0 /\ created = 0
NoApp == NoFrontend /\ NoBackend /\ NoLogger /\ NoQueue /\ NoDb

\* Identity substitution: every identity, on the template
InitIdentity ==
  \E a \in FullArgs \cup WrongArgs, hasSrc, hasDst, hasTool \in BOOLEAN :
    /\ InitRun(a, Checkout(IF Len(a) > 0 THEN a[1] ELSE <<>>, DefaultEnv,
                           hasSrc, hasDst, hasTool), "L5")
    /\ NoRandomport
    /\ NoMachineSetup
    /\ NoClone
    /\ NoApp
    /\ NoSetup

NextIdentity == transform_project(FixedDraw) \/ Rerun

SpecIdentity == InitIdentity /\ [][NextIdentity]_vars

-----------------------------------------------------------------------------
(* Identity substitution: claims *)

Exited(st) == pc = "exit" /\ status = st

Placeholders == {"@my-org", "my-project", "My project"}

HasPlaceholder(lines) ==
  \E i \in 1..Len(lines) : \E k \in 1..Len(lines[i]) : lines[i][k] \in Placeholders

\* the files of the working copy other than the port file
SameButEnv(a, b) ==
  /\ DOMAIN a = DOMAIN b
  /\ \A f \in DOMAIN a \ {EnvLocal} : a[f] = b[f]

\* C1: a second run of the transform with the same identity leaves every
\* file the substitution rules and the rename touch byte-identical to its
\* state after the first run.
C1_Idempotent == (Exited(0) /\ runs >= 2) => SameButEnv(fs, fs0)

\* C2: after the transform has run, no placeholder token remains in any
\* file of the working copy, nor in the workspace file's name.
C2_Complete ==
  Exited(0) =>
    \A f \in DOMAIN fs : ~HasPlaceholder(<<f>>) /\ ~HasPlaceholder(fs[f])

\* C6: with any number of arguments other than four the transform prints
\* the usage message, exits 1 and modifies no file; only with exactly four
\* does it get past the argument check.
C6_Arity ==
  /\ Len(args) # 4 =>
       /\ pc \in {"L5", "exit"}
       /\ fs = fs0
       /\ pc = "exit" => (status = 1 /\ out = <<UsageText>>)
  /\ Len(args) = 4 => UsageText \notin {out[i] : i \in 1..Len(out)}

C6_Witness == Len(args) = 5 /\ Exited(1) /\ out = <<UsageText>>

\* C7: when <slug>.code-workspace already exists, the rename step changes
\* no file and the transform goes on.
C7_RenameNoOp ==
  [][(pc = "L33" /\ Workspace(SLUG) \in DOMAIN fs) => (fs' = fs /\ pc' = "L37")]_vars

-----------------------------------------------------------------------------
(* Port assignment: every .env.local, on the template *)

MaxExtraLines == 1

ExtraLines ==
  { <<"# ", "BACKEND_PORT=", "3000", " serves the API">>,
    <<"E2E_", "FRONTEND_PORT=", "9775">>,
    <<"APP_ENV=", "development">> }

RECURSIVE SeqsUpTo(_, _)
SeqsUpTo(S, n) ==
  IF n = 0 THEN { <<>> }
  ELSE LET shorter == SeqsUpTo(S, n - 1)
       IN  shorter \cup { Append(q, x) : q \in shorter, x \in S }

\* the key lines of DefaultEnv at the positions in keep, in order
RECURSIVE KeyLines(_, _)
KeyLines(keep, i) ==
  IF i > Len(DefaultEnv) THEN <<>>
  ELSE (IF i \in keep THEN <<DefaultEnv[i]>> ELSE <<>>) \o KeyLines(keep, i + 1)

EnvFiles ==
  { pre \o KeyLines(keep, 1) :
      pre \in SeqsUpTo(ExtraLines, MaxExtraLines), keep \in SUBSET (1..Len(DefaultEnv)) }

SampleArgs == [i \in 1..4 |-> SampleArg(i)]

InitPorts ==
  /\ \E env \in EnvFiles :
       InitRun(SampleArgs, Checkout(SampleArgs[1], env, TRUE, FALSE, TRUE), "L5")
  /\ NoRandomport
  /\ NoMachineSetup
  /\ NoClone
  /\ NoApp
  /\ NoSetup

NextPorts == transform_project(RandomDraws) \/ Rerun

SpecPorts == InitPorts /\ [][NextPorts]_vars

PortKeys == {"BACKEND_PORT=", "FRONTEND_PORT=", "VITE_API_BASE_URL="}
IsKeyLine(line) == Len(line) > 0 /\ line[1] \in PortKeys

\* the values .env.local holds for a key
EnvValues(key) ==
  { Tail(fs[EnvLocal][i]) : i \in { j \in 1..Len(fs[EnvLocal]) :
                                       Len(fs[EnvLocal][j]) > 0 /\ fs[EnvLocal][j][1] = key } }

\* C9: the two ports a transform run generates and writes to .env.local
\* are distinct.
C9_DistinctPorts ==
  Exited(0) =>
    /\ BACKEND_PORT # FRONTEND_PORT
    /\ EnvValues("BACKEND_PORT=") \cap EnvValues("FRONTEND_PORT=") = {}

\* C10: port assignment adds and removes no line of .env.local, leaves
\* every line other than the three key lines as it was, and keeps the key
\* of each key line.
C10_OnlyKeyLines ==
  (pc \in {"L49", "L50", "L53", "L63"} \/ Exited(0)) =>
    /\ Len(fs[EnvLocal]) = Len(fs0[EnvLocal])
    /\ \A i \in 1..Len(fs0[EnvLocal]) :
         IF IsKeyLine(fs0[EnvLocal][i])
           THEN IsKeyLine(fs[EnvLocal][i]) /\ fs[EnvLocal][i][1] = fs0[EnvLocal][i][1]
           ELSE fs[EnvLocal][i] = fs0[EnvLocal][i]

-----------------------------------------------------------------------------
(* etc/bin/randomport run on its own, on every value of RANDOM *)

\* line 6
ComputePort ==
  /\ rpc = "L6"
  /\ PORT' = randomport(RANDOM)
  /\ rpc' = "L8"
  /\ UNCHANGED <<RANDOM, args, tstate, pc, status, out, fs, fs0, runs, svars,
              mvars, gvars, avars>>

\* line 8
EchoPort ==
  /\ rpc = "L8"
  /\ out' = Append(out, <<ToString(PORT)>>)
  /\ rpc' = "exit"
  /\ UNCHANGED <<RANDOM, PORT, args, tstate, pc, status, fs, fs0, runs, svars,
              mvars, gvars, avars>>

InitRandomport ==
  /\ RANDOM \in 0..RandomMax
  /\ PORT = 0
  /\ rpc = "L6"
  /\ InitRun(<<>>, <<>>, "none")
  /\ NoSetup
  /\ NoMachineSetup
  /\ NoClone
  /\ NoApp

NextRandomport == ComputePort \/ EchoPort

SpecRandomport == InitRandomport /\ [][NextRandomport]_vars

\* C8: every port the generator prints is an integer p with
\* 1024 <= p <= 9999, whatever value RANDOM has.
C8_PortRange ==
  rpc \in {"L8", "exit"} => (PORT \in Int /\ 1024 <= PORT /\ PORT <= 9999)

C8_Witness == rpc = "exit" /\ RANDOM = RandomMax /\ out = << <<ToString(PORT)>> >>

-----------------------------------------------------------------------------
(* etc/bin/install_deps.sh, etc/bin/verify_setup.sh and the full-setup     *)
(* script that runs clone, transform, install and verify in turn.  Each    *)
(* external command (pnpm, zap) succeeds or fails as the environment       *)
(* decides; all three scripts run under `set -e`.                          *)

CloneTemplateSh == <<"etc/bin/", "clone_template.sh">>

\* the variables of the transform, which install and verify do not touch
tvars == <<args, tstate, pc, status, runs, fs0>>

\* the script without set -e
ErrExit_Off(ok, next) == next

\* set -e: where a script goes after a command that is not part of a
\* condition
ErrExit(ok, next) == IF ok THEN next ELSE "exit"

\* ---- install_deps.sh

InstallCmd(line, cmd, next) ==
  /\ ipc = line
  /\ \E ok \in BOOLEAN :
       /\ log' = Append(log, <<cmd, ok>>)
       /\ ipc' = ErrExit(ok, next)
       /\ istatus' = IF ErrExit(ok, next) = "exit" THEN 1 ELSE istatus
  /\ UNCHANGED <<tvars, rvars, mvars, gvars, avars, out, fs, oargs, opc, ostatus, vpc, vstatus, services>>

\* line 7
PnpmInstall == InstallCmd("L7", "pnpm install", "L11")
\* line 11
PlaywrightInstall == InstallCmd("L11", "playwright install chromium", "L13")
\* line 13
InstallDone ==
  /\ ipc = "L13"
  /\ out' = Append(out, <<"Dependencies installed successfully!">>)
  /\ ipc' = "exit"
  /\ istatus' = 0
  /\ UNCHANGED <<tvars, rvars, mvars, gvars, avars, fs, oargs, opc, ostatus, vpc, vstatus, log, services>>

install_deps == PnpmInstall \/ PlaywrightInstall \/ InstallDone

\* ---- verify_setup.sh

VerifyCompleteText == <<"Setup verification complete!">>
SmokePassedText == <<"Smoke test passed - 'Hello World' endpoint working!">>
SmokeFailedText == <<"Smoke test failed - there may be setup issues">>

\* what zap up / zap stop leave running: a successful command does what it
\* says, a failed one may have done it or not
ServicesAfter(cmd, ok) ==
  CASE cmd = "zap up" -> IF ok THEN {"up"} ELSE {services, "up"}
    [] cmd = "zap stop" -> IF ok THEN {"down"} ELSE {services, "down"}
    [] OTHER -> {services}

VerifyCmd(line, cmd, next) ==
  /\ vpc = line
  /\ \E ok \in BOOLEAN :
       /\ log' = Append(log, <<cmd, ok>>)
       /\ vpc' = ErrExit(ok, next)
       /\ vstatus' = IF ErrExit(ok, next) = "exit" THEN 1 ELSE vstatus
       /\ services' \in ServicesAfter(cmd, ok)
  /\ UNCHANGED <<tvars, rvars, mvars, gvars, avars, out, fs, oargs, opc, ostatus, ipc, istatus>>

\* line 8
Typecheck == VerifyCmd("L8", "pnpm typecheck", "L12")
\* line 12
Build == VerifyCmd("L12", "pnpm build", "L16")
\* line 16
ZapUp == VerifyCmd("L16", "zap up", "L20")
\* line 20
Sleep ==
  /\ vpc = "L20"
  /\ vpc' = "L24"
  /\ UNCHANGED <<tvars, rvars, mvars, gvars, avars, out, fs, oargs, opc, ostatus, ipc, istatus,
                 vstatus, log, services>>

\* lines 24-27: the smoke test is the condition of an `if`, so `set -e`
\* does not apply to it
\* the failure branch going straight to `zap stop`
AfterSmoke_NoDiagnostics(ok) == IF ok THEN "L38" ELSE "L32"

\* a verification that cleans up whatever the smoke test said
AfterSmoke_CleanUp(ok) == "L38"

AfterSmoke(ok) == IF ok THEN "L38" ELSE "L29"

\* what the page shows in its <p>: the message helloWorld returns, which
\* is the message packages/core/src/index.ts exports
RenderedMessage ==
  IF CoreIndexTs \in DOMAIN fs /\ Len(fs[CoreIndexTs]) > 0
    THEN SubSeq(fs[CoreIndexTs][1], 2, Len(fs[CoreIndexTs][1]) - 1)
    ELSE <<>>

\* smoke.spec.ts: expect(page.locator("p")).not.toBeEmpty()
SmokeExpectation(text) == text # <<>>

\* the smoke test passes only if the services answer and the expectation
\* holds
SmokeTest ==
  /\ vpc = "L24"
  /\ \E ok \in BOOLEAN :
       /\ ok => SmokeExpectation(RenderedMessage)
       /\ log' = Append(log, <<"zap t smoke", ok>>)
       /\ out' = Append(out, IF ok THEN SmokePassedText ELSE SmokeFailedText)
       /\ vpc' = AfterSmoke(ok)
  /\ UNCHANGED <<tvars, rvars, mvars, gvars, avars, fs, oargs, opc, ostatus, ipc, istatus, vstatus,
                 services>>

\* line 29
ZapPs == VerifyCmd("L29", "zap ps", "L31")
\* line 31
ZapLogs == VerifyCmd("L31", "zap logs backend", "L32")
\* line 32
ZapStopAfterFailure == VerifyCmd("L32", "zap stop", "L33")
\* line 33
ExitFailed ==
  /\ vpc = "L33"
  /\ vpc' = "exit"
  /\ vstatus' = 1
  /\ UNCHANGED <<tvars, rvars, mvars, gvars, avars, out, fs, oargs, opc, ostatus, ipc, istatus, log,
                 services>>

\* line 38
ZapStop == VerifyCmd("L38", "zap stop", "L41")

\* lines 41-44
RemoveSetupGuide ==
  /\ vpc = "L41"
  /\ fs' = [f \in DOMAIN fs \ {SetupGuide} |-> fs[f]]
  /\ vpc' = "L46"
  /\ UNCHANGED <<tvars, rvars, mvars, gvars, avars, out, oargs, opc, ostatus, ipc, istatus, vstatus,
                 log, services>>

\* lines 46-48
VerifyDone ==
  /\ vpc = "L46"
  /\ out' = Append(out, VerifyCompleteText)
  /\ vpc' = "exit"
  /\ vstatus' = 0
  /\ UNCHANGED <<tvars, rvars, mvars, gvars, avars, fs, oargs, opc, ostatus, ipc, istatus, log,
                 services>>

verify_setup ==
  \/ Typecheck
  \/ Build
  \/ ZapUp
  \/ Sleep
  \/ SmokeTest
  \/ ZapPs
  \/ ZapLogs
  \/ ZapStopAfterFailure
  \/ ExitFailed
  \/ ZapStop
  \/ RemoveSetupGuide
  \/ VerifyDone

\* ---- the full-setup script

SetupUsageText == <<"Usage: $0 SLUG DISPLAY_NAME DESCRIPTION EMOJI">>
SkipCloneText == <<"Skipping clone (already in template directory)">>
SetupCompleteText == <<"Project setup complete!">>

\* the frame of a step of the full-setup script itself
SetupFrame ==
  UNCHANGED <<tstate, runs, fs0, rvars, mvars, gvars, avars, oargs, ipc, istatus, vpc, vstatus, log,
              services>>

\* lines 14-35
CheckSetupArgs ==
  /\ opc = "L14"
  /\ IF ArityOk(Len(oargs))
       THEN opc' = "L42" /\ UNCHANGED <<out, ostatus>>
       ELSE /\ out' = Append(out, SetupUsageText)
            /\ opc' = "exit"
            /\ ostatus' = 1
  /\ UNCHANGED <<args, pc, status, fs>>
  /\ SetupFrame

\* the run going on to the transform after the clone script was not found
CloneOrSkip_GoesOn ==
  /\ opc = "L42"
  /\ IF CloneTemplateSh \in DOMAIN fs
       THEN /\ out' = Append(out, SkipCloneText)
            /\ UNCHANGED log
       ELSE /\ log' = Append(log, <<"clone_template.sh", FALSE>>)
            /\ UNCHANGED out
  /\ opc' = "L49"
  /\ UNCHANGED <<args, pc, status, fs, ostatus>>
  /\ UNCHANGED <<tstate, runs, fs0, rvars, mvars, gvars, avars, oargs, ipc, istatus, vpc, vstatus, services>>

\* lines 42-46: the clone script is run only when it is not beside the
\* full-setup script, that is when there is no such command (status 127)
CloneOrSkip ==
  /\ opc = "L42"
  /\ IF CloneTemplateSh \in DOMAIN fs
       THEN /\ out' = Append(out, SkipCloneText)
            /\ opc' = "L49"
            /\ UNCHANGED <<ostatus, log>>
       ELSE /\ log' = Append(log, <<"clone_template.sh", FALSE>>)
            /\ opc' = "exit"
            /\ ostatus' = 127
            /\ UNCHANGED out
  /\ UNCHANGED <<args, pc, status, fs>>
  /\ UNCHANGED <<tstate, runs, fs0, rvars, mvars, gvars, avars, oargs, ipc, istatus, vpc, vstatus, services>>

\* line 49: run the transform with the four arguments and wait for it
CallTransform ==
  /\ opc = "L49"
  /\ args' = <<oargs[1], oargs[2], oargs[3], oargs[4]>>
  /\ pc' = "L5"
  /\ status' = -1
  /\ opc' = "L49 wait"
  /\ UNCHANGED <<out, ostatus, fs>>
  /\ SetupFrame

ReturnFromTransform ==
  /\ opc = "L49 wait"
  /\ pc = "exit"
  /\ opc' = ErrExit(status = 0, "L52")
  /\ ostatus' = IF ErrExit(status = 0, "L52") = "exit" THEN status ELSE ostatus
  /\ UNCHANGED <<args, pc, status, out, fs>>
  /\ SetupFrame

\* line 52
CallInstall ==
  /\ opc = "L52"
  /\ ipc' = "L7"
  /\ istatus' = -1
  /\ opc' = "L52 wait"
  /\ UNCHANGED <<args, pc, status, out, fs, ostatus>>
  /\ UNCHANGED <<tstate, runs, fs0, rvars, mvars, gvars, avars, oargs, vpc, vstatus, log, services>>

ReturnFromInstall ==
  /\ opc = "L52 wait"
  /\ ipc = "exit"
  /\ opc' = ErrExit(istatus = 0, "L55")
  /\ ostatus' = IF ErrExit(istatus = 0, "L55") = "exit" THEN istatus ELSE ostatus
  /\ UNCHANGED <<args, pc, status, out, fs>>
  /\ SetupFrame

\* the verification started without waiting for install_deps.sh
CallVerify_Early ==
  /\ opc \in {"L52", "L55"}
  /\ vpc' = "L8"
  /\ vstatus' = -1
  /\ opc' = "L55 wait"
  /\ UNCHANGED <<args, pc, status, out, fs, ostatus>>
  /\ UNCHANGED <<tstate, runs, fs0, rvars, mvars, gvars, avars, oargs, ipc, istatus, log, services>>

\* line 55
CallVerify ==
  /\ opc = "L55"
  /\ vpc' = "L8"
  /\ vstatus' = -1
  /\ opc' = "L55 wait"
  /\ UNCHANGED <<args, pc, status, out, fs, ostatus>>
  /\ UNCHANGED <<tstate, runs, fs0, rvars, mvars, gvars, avars, oargs, ipc, istatus, log, services>>

ReturnFromVerify ==
  /\ opc = "L55 wait"
  /\ vpc = "exit"
  /\ opc' = ErrExit(vstatus = 0, "L58")
  /\ ostatus' = IF ErrExit(vstatus = 0, "L58") = "exit" THEN vstatus ELSE ostatus
  /\ UNCHANGED <<args, pc, status, out, fs>>
  /\ SetupFrame

\* grep FRONTEND_PORT .env.local | cut -d'=' -f2: of every line that
\* mentions FRONTEND_PORT, what stands between its first and second "="
GrepFrontendPort ==
  IF EnvLocal \notin DOMAIN fs THEN <<>>
  ELSE LET lines == fs[EnvLocal]
           hits == { i \in 1..Len(lines) : FirstIndex(lines[i], "FRONTEND_PORT=") # 0 }
       IN  [n \in 1..Cardinality(hits) |->
              LET i == CHOOSE i \in hits :
                         Cardinality({j \in hits : j <= i}) = n
                  k == FirstIndex(lines[i], "FRONTEND_PORT=")
              IN  IF k = 1 /\ Len(lines[i]) >= 2 THEN <<lines[i][2]>> ELSE <<"...">>]

\* lines 57-64
SetupComplete ==
  /\ opc = "L58"
  /\ out' = out \o <<SetupCompleteText,
                     <<"Frontend will be at: http:", "/", "/", "localhost:">>
                       \o (IF GrepFrontendPort = <<>> THEN <<>> ELSE GrepFrontendPort[1])>>
  /\ opc' = "exit"
  /\ ostatus' = 0
  /\ UNCHANGED <<args, pc, status, fs>>
  /\ SetupFrame

full_setup ==
  \/ CheckSetupArgs
  \/ CloneOrSkip
  \/ CallTransform
  \/ ReturnFromTransform
  \/ CallInstall
  \/ ReturnFromInstall
  \/ CallVerify
  \/ ReturnFromVerify
  \/ SetupComplete

\* ---- runs of the scripts: the full setup, or install_deps.sh or
\* verify_setup.sh on their own (steps 4 and 5 of PROJECT_SETUP_GUIDE.md)

SetupArgs ==
  { SampleArgs, SubSeq(SampleArgs, 1, 3), [SampleArgs EXCEPT ![2] = <<"A", "/", "B">>] }

InitSetup ==
  \E mode \in {"setup", "install", "verify"}, a \in SetupArgs,
     hasClone, hasGuide \in BOOLEAN, running \in {"down", "up"} :
    /\ mode # "setup" => a = SampleArgs
    /\ LET copy == Checkout(SampleArgs[1], DefaultEnv, TRUE, FALSE, TRUE)
           withClone == IF hasClone
                          THEN (CloneTemplateSh :> << <<"git clone ...">> >>) @@ copy
                          ELSE copy
           files == [f \in DOMAIN withClone \ (IF hasGuide THEN {} ELSE {SetupGuide})
                       |-> withClone[f]]
       IN  InitRun(<<>>, files, "none")
    /\ NoRandomport
    /\ NoMachineSetup
    /\ NoClone
    /\ NoApp
    /\ oargs = (IF mode = "setup" THEN a ELSE <<>>)
    /\ opc = (IF mode = "setup" THEN "L14" ELSE "none")
    /\ ostatus = -1
    /\ ipc = (IF mode = "install" THEN "L7" ELSE "none")
    /\ istatus = -1
    /\ vpc = (IF mode = "verify" THEN "L8" ELSE "none")
    /\ vstatus = -1
    /\ log = <<>>
    /\ services = running

NextSetup == full_setup \/ transform_project(FixedDraw) \/ install_deps \/ verify_setup

SpecSetup == InitSetup /\ [][NextSetup]_vars

-----------------------------------------------------------------------------
(* Verification: claims *)

Range(q) == {q[i] : i \in 1..Len(q)}
Ran(cmd) == \E i \in 1..Len(log) : log[i][1] = cmd
Succeeded(cmd) == <<cmd, TRUE>> \in Range(log)
Failed(cmd) == <<cmd, FALSE>> \in Range(log)

InstallStages == <<"pnpm install", "playwright install chromium">>
VerifyStages == <<"pnpm typecheck", "pnpm build", "zap up", "zap t smoke">>

IsStage(e) == e[1] \in Range(InstallStages) \cup Range(VerifyStages)
IsVerifyStage(e) == e[1] \in Range(VerifyStages)

\* the stage commands of the run, in the order they ran
StagesRun == SelectSeq(log, IsStage)
VerifyStagesRun == SelectSeq(log, IsVerifyStage)

AllOk(stages) == [i \in 1..Len(stages) |-> <<stages[i], TRUE>>]

VerifyExited == vpc = "exit"
PrintedComplete == VerifyCompleteText \in Range(out)

\* C3: verification prints the completion message and exits 0 only in
\* runs in which dependency installation, type-check, build, service
\* start-up and the smoke test each succeeded, in that order; every other
\* run exits non-zero.
C3_PassedOnlyAfterAllStages ==
  VerifyExited =>
    /\ vstatus = 0 <=> PrintedComplete
    /\ vstatus = 0 => StagesRun = AllOk(InstallStages \o VerifyStages)
    /\ vstatus # 0 => vstatus > 0

\* C3 as amended: verify_setup.sh prints the completion message and exits
\* 0 only in runs in which type-check, build, service start-up and the
\* smoke test each succeeded, in that order, and exits non-zero in every
\* other run; dependency installation precedes them when the full-setup
\* script runs the verification, which it does only after install_deps.sh
\* exited 0.
C3_PassedOnlyAfterVerifyStages ==
  /\ VerifyExited =>
       /\ vstatus = 0 <=> PrintedComplete
       /\ vstatus = 0 => VerifyStagesRun = AllOk(VerifyStages)
       /\ vstatus # 0 => vstatus > 0
  /\ (opc # "none" /\ vpc # "none") =>
       /\ istatus = 0
       /\ SubSeq(StagesRun, 1, 2) = AllOk(InstallStages)
  /\ (opc # "none" /\ VerifyExited /\ vstatus = 0) =>
       StagesRun = AllOk(InstallStages \o VerifyStages)

C3_Witness ==
  /\ opc = "exit" /\ ostatus = 0
  /\ VerifyExited /\ vstatus = 0 /\ PrintedComplete

\* C4: every run of the verification that invoked `zap up` executes
\* `zap stop` before it exits.
C4_StopAfterUp ==
  VerifyExited =>
    \A i \in 1..Len(log) :
      log[i][1] = "zap up" => \E j \in (i + 1)..Len(log) : log[j][1] = "zap stop"

-----------------------------------------------------------------------------
(* Port assignment: what is persisted *)

Printed(text) == \E i \in 1..Len(out) : out[i] = text

\* C11: after a transform run that exits 0, .env.local holds
\* BACKEND_PORT=b, FRONTEND_PORT=f and VITE_API_BASE_URL=http://localhost:b
\* for the ports b and f the run printed.
C11_PortsPersisted ==
  Exited(0) =>
    /\ Printed(BackendPortText(BACKEND_PORT))
    /\ Printed(FrontendPortText(FRONTEND_PORT))
    /\ EnvValues("BACKEND_PORT=") = { <<ToString(BACKEND_PORT)>> }
    /\ EnvValues("FRONTEND_PORT=") = { <<ToString(FRONTEND_PORT)>> }
    /\ EnvValues("VITE_API_BASE_URL=") =
         { <<"http:", "/", "/", "localhost:", ToString(BACKEND_PORT)>> }

-----------------------------------------------------------------------------
(* Identity substitution on a working copy that lacks a target file *)

\* the files the script names one by one (lines 32-42)
NamedTargets == {ZapYaml, IndexHtml, CoreIndexTs, AppTestTsx, Dockerfile}

Without(files, gone) == [f \in DOMAIN files \ gone |-> files[f]]

InitMissing ==
  /\ \E gone \in SUBSET NamedTargets, a \in FullArgs, hasTool \in BOOLEAN :
       /\ Cardinality(gone) <= 1
       /\ InitRun(a, Without(Checkout(a[1], DefaultEnv, TRUE, FALSE, hasTool), gone), "L5")
  /\ NoRandomport
  /\ NoMachineSetup
  /\ NoClone
  /\ NoApp
  /\ NoSetup

NextMissing == transform_project(FixedDraw)

SpecMissing == InitMissing /\ [][NextMissing]_vars

SedParses ==
  /\ ExpandRhs(<<"@">> \o args[1], "/", <<>>).ok
  /\ ExpandRhs(args[2], "/", <<>>).ok

\* C12: a run of the transform on a working copy that lacks one of the
\* files a substitution rule names, with an identity sed accepts, still
\* exits 0 after the remaining rules: it prints the completion message
\* and writes the generated ports.
C12_MissingTargetSkipped ==
  (pc = "exit" /\ SedParses) =>
    /\ status = 0
    /\ Printed(CompleteText)
    /\ EnvValues("BACKEND_PORT=") = { <<ToString(BACKEND_PORT)>> }

-----------------------------------------------------------------------------
(* etc/bin/machine_setup.sh *)

Tools == {"node", "pnpm", "zap"}

\* what a tool prints for --version
Versions(tool) ==
  CASE tool = "node" -> {"v18.19.0", "v20.11.1", "v22.3.0"}
    [] tool = "pnpm" -> {"8.15.4", "9.1.0"}
    [] tool = "zap" -> {"0.9.2", "1.0.0"}

Label(tool) ==
  CASE tool = "node" -> "Node.js"
    [] tool = "pnpm" -> "pnpm"
    [] tool = "zap" -> "Zapper"

InstalledText(tool, version) == <<Label(tool), ": ", version, " (installed)">>
MissingText(tool) == <<Label(tool), ": missing">>

NotReadyText == <<"Machine is NOT ready for development.">>
ReadyText == <<"Machine is ready for development.">>
MissingHeader == <<"Missing dependencies:">>

MissingItem(tool) ==
  CASE tool = "node" -> <<"- ", "Node.js", " (install from https:", "/", "/", "nodejs.org v18+)">>
    [] tool = "pnpm" -> <<"- ", "pnpm", " (run: corepack enable)">>
    [] tool = "zap" -> <<"- ", "Zapper", " (run: npm install -g @hyperdoc", "/", "zapper)">>

MachineFrame ==
  UNCHANGED <<args, tstate, pc, status, fs, fs0, runs, rvars, svars, gvars, avars,
              installed>>

\* lines 3-10
TrackResults ==
  /\ mpc = "L3"
  /\ out' = Append(out, <<"Checking machine setup...">>)
  /\ node_ok' = FALSE
  /\ pnpm_ok' = FALSE
  /\ zapper_ok' = FALSE
  /\ any_failures' = FALSE
  /\ mpc' = "L13"
  /\ UNCHANGED mstatus
  /\ MachineFrame

\* what one probe prints (lines 13-20, 23-30, 33-40)
ProbeReports(tool) ==
  IF tool \in installed
    THEN { InstalledText(tool, v) : v \in Versions(tool) }
    ELSE { MissingText(tool) }

\* lines 13-20
CheckNode ==
  /\ mpc = "L13"
  /\ \E report \in ProbeReports("node") : out' = Append(out, report)
  /\ node_ok' = IF "node" \in installed THEN TRUE ELSE node_ok
  /\ any_failures' = IF "node" \in installed THEN any_failures ELSE TRUE
  /\ mpc' = "L23"
  /\ UNCHANGED <<pnpm_ok, zapper_ok, mstatus>>
  /\ MachineFrame

\* lines 23-30
CheckPnpm ==
  /\ mpc = "L23"
  /\ \E report \in ProbeReports("pnpm") : out' = Append(out, report)
  /\ pnpm_ok' = IF "pnpm" \in installed THEN TRUE ELSE pnpm_ok
  /\ any_failures' = IF "pnpm" \in installed THEN any_failures ELSE TRUE
  /\ mpc' = "L33"
  /\ UNCHANGED <<node_ok, zapper_ok, mstatus>>
  /\ MachineFrame

\* lines 33-40
CheckZapper ==
  /\ mpc = "L33"
  /\ \E report \in ProbeReports("zap") : out' = Append(out, report)
  /\ zapper_ok' = IF "zap" \in installed THEN TRUE ELSE zapper_ok
  /\ any_failures' = IF "zap" \in installed THEN any_failures ELSE TRUE
  /\ mpc' = "L42"
  /\ UNCHANGED <<node_ok, pnpm_ok, mstatus>>
  /\ MachineFrame

\* lines 48-56
MissingDependencies ==
     (IF node_ok = FALSE THEN <<MissingItem("node")>> ELSE <<>>)
  \o (IF pnpm_ok = FALSE THEN <<MissingItem("pnpm")>> ELSE <<>>)
  \o (IF zapper_ok = FALSE THEN <<MissingItem("zap")>> ELSE <<>>)

\* every run reporting the machine ready
SummaryStatus_AlwaysReady(failures) == 0

\* lines 57, 60
SummaryStatus(failures) == IF failures THEN 1 ELSE 0

\* lines 42-61
Summary ==
  /\ mpc = "L42"
  /\ out' = out \o <<<<"SUMMARY:">>>> \o
              (IF any_failures = TRUE
                 THEN <<NotReadyText, MissingHeader>> \o MissingDependencies
                 ELSE <<ReadyText>>)
  /\ mstatus' = SummaryStatus(any_failures = TRUE)
  /\ mpc' = "exit"
  /\ UNCHANGED <<node_ok, pnpm_ok, zapper_ok, any_failures>>
  /\ MachineFrame

machine_setup == TrackResults \/ CheckNode \/ CheckPnpm \/ CheckZapper \/ Summary

InitMachineSetup ==
  /\ installed \in SUBSET Tools
  /\ mpc = "L3" /\ mstatus = -1
  /\ node_ok = FALSE /\ pnpm_ok = FALSE /\ zapper_ok = FALSE /\ any_failures = FALSE
  /\ InitRun(<<>>, <<>>, "none")
  /\ NoRandomport
  /\ NoSetup
  /\ NoClone
  /\ NoApp

NextMachineSetup == machine_setup

SpecMachineSetup == InitMachineSetup /\ [][NextMachineSetup]_vars

\* the lines printed after the "Missing dependencies:" header
AfterHeader ==
  LET at == { i \in 1..Len(out) : out[i] = MissingHeader }
  IN  IF at = {} THEN {}
      ELSE { out[j] : j \in ((CHOOSE i \in at : TRUE) + 1)..Len(out) }

\* C13: whatever subset of Node.js, pnpm and Zapper is installed, the
\* prerequisite check reports every tool once, the present ones as
\* installed with their version and the absent ones as missing, lists
\* under the missing dependencies exactly the absent tools, and exits 1
\* if a tool is absent and 0 otherwise.
C13_ExactlyTheMissingTools ==
  mpc = "exit" =>
    /\ \A t \in Tools :
         /\ (t \in installed) <=>
              (\E v \in Versions(t) : InstalledText(t, v) \in Range(out))
         /\ (t \notin installed) <=> (MissingText(t) \in Range(out))
         /\ (t \notin installed) <=> (MissingItem(t) \in AfterHeader)
         /\ Cardinality({ i \in 1..Len(out) :
                            Len(out[i]) > 1 /\ out[i][1] = Label(t) }) = 1
    /\ mstatus = (IF installed = Tools THEN 0 ELSE 1)
    /\ (installed = Tools) <=> (ReadyText \in Range(out))
    /\ (installed # Tools) <=> (NotReadyText \in Range(out))

C13_Witness ==
  /\ mpc = "exit"
  /\ installed = {"node", "pnpm"}
  /\ mstatus = 1
  /\ MissingItem("zap") \in AfterHeader

-----------------------------------------------------------------------------
(* The full setup on a working copy whose .env.local lacks key lines *)

\* .env.local with any of the three key lines left out
PartialEnvFiles == { KeyLines(keep, 1) : keep \in SUBSET (1..Len(DefaultEnv)) }

InitPipeline ==
  /\ \E env \in PartialEnvFiles, hasClone \in BOOLEAN :
       LET copy == Checkout(SampleArgs[1], env, TRUE, FALSE, TRUE)
       IN  InitRun(<<>>,
                   IF hasClone
                     THEN (CloneTemplateSh :> << <<"git clone ...">> >>) @@ copy
                     ELSE copy,
                   "none")
  /\ NoRandomport
  /\ NoMachineSetup
  /\ NoClone
  /\ NoApp
  /\ oargs = SampleArgs
  /\ opc = "L14" /\ ostatus = -1
  /\ ipc = "none" /\ istatus = -1
  /\ vpc = "none" /\ vstatus = -1
  /\ log = <<>>
  /\ services = "down"

SpecPipeline == InitPipeline /\ [][NextSetup]_vars

\* the port file the run started with lacks one of its three keys
PortFileMalformed ==
  \E key \in PortKeys :
    \A i \in 1..Len(fs0[EnvLocal]) : ~(Len(fs0[EnvLocal][i]) > 0 /\ fs0[EnvLocal][i][1] = key)

IsPipelineStage(e) == IsStage(e) \/ e[1] = "clone_template.sh"

\* C14: an acquisition failure, a malformed port file, a failing
\* installation, build or type-check, a failing service start and a failing
\* smoke test each end the full-setup run with a non-zero status, and no
\* later stage runs after it.
C14_ErrorsAreTerminal ==
  /\ \A i \in 1..Len(log) :
       (IsPipelineStage(log[i]) /\ ~log[i][2]) =>
         /\ \A j \in (i + 1)..Len(log) : ~IsPipelineStage(log[j])
         /\ opc = "exit" => ostatus > 0
         /\ ~Printed(SetupCompleteText)
  /\ PortFileMalformed =>
       /\ ipc = "none" /\ vpc = "none"
       /\ opc = "exit" => ostatus > 0
       /\ ~Printed(SetupCompleteText)

-----------------------------------------------------------------------------
(* The full setup: stage order *)

Running(p) == p \notin {"none", "exit"}

\* a script goes from not started to its first line
TransformStarts == pc = "none" /\ pc' # "none"
InstallStarts == ipc = "none" /\ ipc' # "none"
VerifyStarts == vpc = "none" /\ vpc' # "none"

\* a script that has run is not started again
NoRestart ==
  /\ (pc # "none" => pc' # "none") /\ (pc = "exit" => pc' = "exit")
  /\ (ipc # "none" => ipc' # "none") /\ (ipc = "exit" => ipc' = "exit")
  /\ (vpc # "none" => vpc' # "none") /\ (vpc = "exit" => vpc' = "exit")

StageStep ==
  /\ NoRestart
  /\ TransformStarts => (pc' = "L5" /\ ipc = "none" /\ vpc = "none")
  /\ InstallStarts =>
       (ipc' = "L7" /\ pc = "exit" /\ status = 0 /\ vpc = "none")
  /\ VerifyStarts =>
       (vpc' = "L8" /\ pc = "exit" /\ status = 0 /\ ipc = "exit" /\ istatus = 0)

OneStageAtATime ==
  /\ Cardinality({ i \in 1..3 : Running(<<pc, ipc, vpc>>[i]) }) <= 1
  /\ Printed(SetupCompleteText) => (vpc = "exit" /\ vstatus = 0)
  /\ (opc = "exit" /\ ostatus = 0) => Printed(SetupCompleteText)

\* C15: the full setup runs transform, install-deps and verify in that
\* order and one at a time; a stage starts only after the one before it
\* exited 0, no stage starts twice, and "Project setup complete!" is
\* printed only after verify exited 0.
C15_StagesInOrder == [](OneStageAtATime) /\ [][StageStep]_vars

C15_Witness ==
  /\ opc = "exit" /\ ostatus = 0
  /\ Printed(SetupCompleteText)
  /\ pc = "exit" /\ ipc = "exit" /\ vpc = "exit"
  /\ StagesRun = AllOk(InstallStages \o VerifyStages)

-----------------------------------------------------------------------------
(* etc/bin/clone_template.sh, run in the directory of the new project *)

DotGit == <<".git">>
ExistingHistory == << <<"history of the project already here">> >>
ClonedHistory == << <<"history of maplab-oss", "/", "pnpm-monorepo">> >>
FreshRepository == << <<"empty repository">> >>
ReadmeMd == <<"README.md">>

\* what `git clone <template> .` leaves in an empty directory
ClonedTemplate(slug) ==
  (DotGit :> ClonedHistory) @@ Checkout(slug, DefaultEnv, TRUE, FALSE, TRUE)

CloneFrame ==
  UNCHANGED <<args, tstate, pc, status, out, fs0, runs, rvars, mvars, avars, oargs,
              opc, ostatus, ipc, istatus, vpc, vstatus, services>>

\* one command of clone_template.sh under set -e
CloneCmd(line, cmd, ok, next, files) ==
  /\ gpc = line
  /\ log' = Append(log, <<cmd, ok>>)
  /\ gpc' = ErrExit(ok, next)
  /\ gstatus' = IF ErrExit(ok, next) = "exit" THEN 1 ELSE gstatus
  /\ fs' = IF ok THEN files ELSE fs
  /\ CloneFrame

\* line 7: git refuses to clone into a directory that is not empty
GitClone ==
  \E ok \in BOOLEAN :
    /\ ok => DOMAIN fs = {}
    /\ CloneCmd("L7", "git clone", ok, "L10", ClonedTemplate(args[1]))

\* line 10
RemoveGitHistory ==
  \E ok \in BOOLEAN :
    CloneCmd("L10", "rm -rf .git", ok, "L11", Without(fs, {DotGit}))

\* line 11
GitInit ==
  \E ok \in BOOLEAN :
    CloneCmd("L11", "git init", ok, "L13",
             IF DotGit \in DOMAIN fs THEN fs ELSE (DotGit :> FreshRepository) @@ fs)

\* line 13
CloneDone ==
  /\ gpc = "L13"
  /\ gpc' = "exit"
  /\ gstatus' = 0
  /\ UNCHANGED <<fs, log>>
  /\ CloneFrame

clone_template == GitClone \/ RemoveGitHistory \/ GitInit \/ CloneDone

\* the operator goes on to the transform once the template is there
\* (PROJECT_SETUP_GUIDE.md, steps 1 and 3)
RunTransform ==
  /\ gpc = "exit" /\ gstatus = 0
  /\ pc = "none"
  /\ pc' = "L5"
  /\ UNCHANGED <<args, tstate, status, out, fs, fs0, runs, others>>

InitClone ==
  /\ \E a \in FullArgs, hasGit, hasFiles \in BOOLEAN :
       InitRun(a,
               (IF hasGit THEN DotGit :> ExistingHistory ELSE <<>>)
                 @@ (IF hasFiles THEN ReadmeMd :> << <<"# notes">> >> ELSE <<>>),
               "none")
  /\ NoRandomport
  /\ NoMachineSetup
  /\ NoSetup
  /\ gpc = "L7" /\ gstatus = -1
  /\ NoApp

NextClone == clone_template \/ RunTransform \/ transform_project(FixedDraw)

SpecClone == InitClone /\ [][NextClone]_vars

\* C16: acquisition exits 0 only after git clone, rm -rf .git and git init
\* each succeeded, in that order, leaving a fresh repository; when the
\* clone fails it exits non-zero, runs neither rm -rf .git nor git init
\* and leaves an existing .git directory as it was.
C16_CloneThenReset ==
  /\ (gpc = "exit" /\ gstatus = 0) =>
       /\ log = <<<<"git clone", TRUE>>, <<"rm -rf .git", TRUE>>, <<"git init", TRUE>>>>
       /\ DotGit \in DOMAIN fs /\ fs[DotGit] = FreshRepository
  /\ Failed("git clone") =>
       /\ gpc = "exit" /\ gstatus > 0
       /\ ~Ran("rm -rf .git") /\ ~Ran("git init")
       /\ fs = fs0
  /\ (gpc = "exit" /\ (Failed("rm -rf .git") \/ Failed("git init"))) => gstatus > 0

C16_Witness ==
  /\ gpc = "exit" /\ gstatus = 0
  /\ Succeeded("git init")
  /\ fs[DotGit] = FreshRepository

-----------------------------------------------------------------------------
(* Port assignment: re-runs *)

\* the current invocation started on a working copy a completed transform
\* left behind
AfterCompletedRun == runs >= 2 \/ (runs = 1 /\ pc # "exit")

\* C17: once a completed transform has written the port assignment, a
\* re-run of the transform with the same identity leaves the BACKEND_PORT,
\* FRONTEND_PORT and VITE_API_BASE_URL lines of .env.local as they were.
C17_PortsGeneratedOnce ==
  AfterCompletedRun =>
    \A i \in 1..Len(fs0[EnvLocal]) :
      IsKeyLine(fs0[EnvLocal][i]) => fs[EnvLocal][i] = fs0[EnvLocal][i]

-----------------------------------------------------------------------------
(* The full setup: what the smoke test accepts *)

SmokeArgs ==
  { SampleArgs,
    [SampleArgs EXCEPT ![2] = <<"R", "&", "D">>],
    [SampleArgs EXCEPT ![2] = <<>>] }

InitSmoke ==
  /\ \E a \in SmokeArgs, hasGuide \in BOOLEAN :
       /\ InitRun(<<>>,
                  Without((CloneTemplateSh :> << <<"git clone ...">> >>)
                            @@ Checkout(a[1], DefaultEnv, TRUE, FALSE, TRUE),
                          IF hasGuide THEN {} ELSE {SetupGuide}),
                  "none")
       /\ oargs = a
  /\ NoRandomport
  /\ NoMachineSetup
  /\ NoClone
  /\ NoApp
  /\ opc = "L14" /\ ostatus = -1
  /\ ipc = "none" /\ istatus = -1
  /\ vpc = "none" /\ vstatus = -1
  /\ log = <<>>
  /\ services = "down"

SpecSmoke == InitSmoke /\ [][NextSetup]_vars

\* C18: a full-setup run whose verification passes has rendered the
\* configured display name: the message the page shows equals the display
\* name the setup was given.
C18_PassedOnlyOnExpectedPayload ==
  (opc # "none" /\ VerifyExited /\ vstatus = 0) => RenderedMessage = oargs[2]

-----------------------------------------------------------------------------
(* Identity substitution: the slug, character by character *)

Lowercase ==
  {"a", "b", "c", "d", "e", "f", "g", "h", "i", "j", "k", "l", "m", "n", "o",
   "p", "q", "r", "s", "t", "u", "v", "w", "x", "y", "z"}
Digits == {"0", "1", "2", "3", "4", "5", "6", "7", "8", "9"}

\* a package-name path segment: lowercase letters and digits, delimited by
\* single hyphens
ValidSlug(slug) ==
  /\ Len(slug) > 0
  /\ \A i \in 1..Len(slug) : slug[i] \in Lowercase \cup Digits \cup {"-"}
  /\ slug[1] # "-" /\ slug[Len(slug)] # "-"
  /\ \A i \in 1..(Len(slug) - 1) : ~(slug[i] = "-" /\ slug[i + 1] = "-")

SpelledSlugs ==
  { <<"a", "c", "m", "e", "-", "a", "p", "p">>,
    <<"A", "c", "m", "e", " ", "A", "p", "p">>,
    <<"a", "c", "m", "e", "_", "a", "p", "p">>,
    <<>> }

InitSlug ==
  /\ \E slug \in SpelledSlugs, e \in Emojis, hasTool \in BOOLEAN :
       InitRun(<<slug, <<"Acme App">>, <<"demo">>, e>>,
               Checkout(slug, DefaultEnv, TRUE, FALSE, hasTool), "L5")
  /\ NoRandomport
  /\ NoMachineSetup
  /\ NoClone
  /\ NoApp
  /\ NoSetup

SpecSlug == InitSlug /\ [][transform_project(FixedDraw)]_vars

\* C19: the transform rewrites the working copy only with a slug that is
\* a valid package-name path segment: with any other slug, an empty one
\* included, no file of the working copy is changed or renamed.
C19_OnlyValidSlugApplied ==
  ~ValidSlug(args[1]) => (fs = fs0 /\ (pc = "exit" => status # 0))

-----------------------------------------------------------------------------
(* Identity substitution: the replacement rules applied in any order *)

\* sed -i '' cmd on the files of a working copy given as a value
SedOn(tree, files, cmd) ==
  [f \in DOMAIN tree |-> IF f \in files THEN SedText(tree[f], cmd) ELSE tree[f]]

Rules == {"package names", "zap.yaml", "display name", "Dockerfile", "favicon"}

\* the script's order: lines 24-28, 32, 37-39, 42, 57
ScriptOrder == <<"package names", "zap.yaml", "display name", "Dockerfile", "favicon">>

ApplyRule(rule, tree) ==
  CASE rule = "package names" ->
         LET manifests == SedOn(tree, {f \in DOMAIN tree : IsPackageJson(f)}, PackageNameCmd)
         IN  SedOn(manifests, {f \in DOMAIN tree : IsTypeScript(f)}, PackageNameCmd)
    [] rule = "zap.yaml" -> SedOn(tree, {ZapYaml}, ProjectRefCmd)
    [] rule = "display name" ->
         SedOn(SedOn(SedOn(tree, {IndexHtml}, DisplayNameCmd),
                     {CoreIndexTs}, DisplayNameCmd),
               {AppTestTsx}, DisplayNameCmd)
    [] rule = "Dockerfile" -> SedOn(tree, {Dockerfile}, PackageNameCmd)
    [] rule = "favicon" ->
         IF EMOJI # <<>> /\ EmojiFavicon \in DOMAIN tree
           THEN SedOn(tree, {IndexHtml}, FaviconCmd)
           ELSE tree

RECURSIVE ApplyAll(_, _)
ApplyAll(order, tree) ==
  IF order = <<>> THEN tree
  ELSE ApplyAll(Tail(order), ApplyRule(Head(order), tree))

Applied == { log[i][1] : i \in 1..Len(log) }

\* one rule that has not been applied yet is applied to the working copy
ApplyAnyRule ==
  /\ pc = "rules"
  /\ \E rule \in Rules \ Applied :
       /\ fs' = ApplyRule(rule, fs)
       /\ log' = Append(log, <<rule, TRUE>>)
  /\ UNCHANGED <<args, tstate, pc, status, out, fs0, runs, rvars, mvars, gvars, avars, oargs,
                 opc, ostatus, ipc, istatus, vpc, vstatus, services>>

EscapedPlaceholderName == <<"@my-org", "\\", "/", "my-project", " docs">>

OrderArgs ==
  { <<slug, name, <<"demo">>, e>> :
      slug \in { <<"acme-app">>, <<"my-project", "-2">> },
      name \in { <<"Acme App">>, <<"My project", " 2">>, EscapedPlaceholderName },
      e \in Emojis }

InitOrder ==
  /\ \E a \in OrderArgs :
       /\ args = a
       /\ SLUG = a[1] /\ DISPLAY_NAME = a[2] /\ DESCRIPTION = a[3] /\ EMOJI = a[4]
       /\ FAVICON_B64 = (IF a[4] = <<>> THEN Unset ELSE emoji_favicon(a[4]))
       /\ fs = Checkout(a[1], DefaultEnv, TRUE, FALSE, TRUE)
       /\ fs0 = Checkout(a[1], DefaultEnv, TRUE, FALSE, TRUE)
  /\ BACKEND_PORT = 0 /\ FRONTEND_PORT = 0
  /\ pc = "rules" /\ status = -1 /\ out = <<>> /\ runs = 0
  /\ NoRandomport
  /\ NoMachineSetup
  /\ NoClone
  /\ NoApp
  /\ NoSetup

SpecOrder == InitOrder /\ [][ApplyAnyRule]_vars

\* C20: whatever the order in which the replacement rules are applied,
\* once all of them have been applied every file of the working copy has
\* the content the script's order gives it.
C20_OrderIndependent ==
  Applied = Rules => fs = ApplyAll(ScriptOrder, fs0)

-----------------------------------------------------------------------------
(* Identity substitution: literal replacement *)

\* a text with every occurrence of pat replaced by rep, rep taken
\* character for character
LiteralText(lines, pat, rep) ==
  [i \in 1..Len(lines) |-> SubstGlobal(lines[i], pat, rep, 1)]

\* the first invocation has ended
FirstRunExited == pc = "exit" /\ Len(args) = 4 /\ runs <= 1

\* C21: whatever characters the slug and the display name contain, the
\* first run of the transform on the template exits 0 and leaves each
\* placeholder occurrence reading exactly the supplied string, the rest of
\* the file unchanged.
C21_LiteralReplacement ==
  FirstRunExited =>
    /\ status = 0
    /\ fs[CoreIndexTs] = LiteralText(fs0[CoreIndexTs], <<"My project">>, args[2])
    /\ fs[AppTestTsx] = LiteralText(fs0[AppTestTsx], <<"My project">>, args[2])
    /\ fs[RootPackageJson] =
         LiteralText(fs0[RootPackageJson], Pkg(<<>>), <<"@">> \o args[1])
    /\ fs[Dockerfile] = LiteralText(fs0[Dockerfile], Pkg(<<>>), <<"@">> \o args[1])

-----------------------------------------------------------------------------
(* The loggers: createLogger of the server package and of the frontend *)

\* MaxFailures uncaught failures are followed in a run of the application
MaxFailures == 2

\* every spread keeping the value of the object spread first
Spread_KeepFirst(a, b) ==
  [k \in DOMAIN a \cup DOMAIN b |-> IF k \in DOMAIN a THEN a[k] ELSE b[k]]

\* { ...a, ...b }: the keys of both, with b's value on a key both have.  An
\* object is a function from its keys; a nested object (source, http) is one
\* value, because the spread is shallow.
Spread(a, b) ==
  [k \in DOMAIN a \cup DOMAIN b |-> IF k \in DOMAIN b THEN b[k] ELSE a[k]]

\* const { message, ...rest } = merged
Rest(merged) == [k \in DOMAIN merged \ {"message"} |-> merged[k]]

\* message ?? fallback
MessageOr(merged, fallback) ==
  IF "message" \in DOMAIN merged THEN merged["message"] ELSE fallback

\* pino's levels, lowest first; "silent" writes nothing
Levels == <<"debug", "info", "warn", "error", "fatal", "silent">>
LevelValue(level) == CHOOSE i \in DOMAIN Levels : Levels[i] = level

\* pino({ level: process.env.LOG_LEVEL ?? "info" }) writes the records whose
\* level is at least the configured one
isLevelEnabled(level) == LevelValue(level) >= LevelValue(LOG_LEVEL)

\* the server package's log(level, eventType, details, meta) of a logger
\* created with base: the record base[level](rest, message ?? eventType)
BackendLog(base, level, type, dets, m) ==
  LET merged == Spread(Spread(Spread([eventType |-> type], base), m),
                       [details |-> dets])
  IN [level |-> level, msg |-> MessageOr(merged, type),
      fields |-> Rest(merged)]

\* the frontend's log: console[level]("[eventType]", message ?? "", rest)
FrontendLog(base, level, type, dets, m) ==
  LET merged == Spread(Spread(Spread([eventType |-> type], base), m),
                       [details |-> dets, timestamp |-> "toISOString"])
  IN [level |-> level, msg |-> MessageOr(merged, ""), fields |-> Rest(merged)]

\* child(childMeta): createLogger({ ...baseMeta, ...childMeta })
child(base, childM) == Spread(base, childM)

\* what pino writes of a record
Write(rec) == IF isLevelEnabled(rec.level) THEN Append(records, rec) ELSE records

\* the entries of a log that have the error level and this event type
ErrorEntries(entries, type) ==
  { i \in DOMAIN entries : /\ entries[i].level = "error"
                           /\ entries[i].fields["eventType"] = type }

\* how many of the failures that happened have this event type
Happened(type) == Cardinality({ i \in DOMAIN uncaught : uncaught[i] = type })

-----------------------------------------------------------------------------
(* apps/frontend: main.tsx and the App component *)

\* the messages the helloWorld procedure may resolve with
Payloads == { "My project", "Hello world", "" }

\* export const logger = createLogger({ source: { platform: "web", env } })
FrontendBase == [source |-> "platform=web"]

FrontendFrame ==
  UNCHANGED <<args, SLUG, DISPLAY_NAME, DESCRIPTION, EMOJI, BACKEND_PORT,
              FRONTEND_PORT, FAVICON_B64, pc, status, out, fs, fs0, runs,
              rvars, svars, mvars, gvars, lvars, qvars, dvars>>

\* main.tsx's imports are evaluated before its body: config.ts parses
\* import.meta.env and throws when VITE_API_BASE_URL is missing; otherwise
\* the body registers the two window listeners (lines 7-31)
LoadPage(ok) ==
  /\ fpc = "loading"
  /\ IF ok
       THEN fpc' = "listening" /\ UNCHANGED uncaught
       ELSE fpc' = "crashed" /\ uncaught' = Append(uncaught, "window.error")
  /\ UNCHANGED <<strict, queries, message, console, bpc, LOG_LEVEL, records, replies>>
  /\ FrontendFrame

\* createRoot(...).render(<StrictMode><App /></StrictMode>): App's effect
\* runs getData(), which issues trpc.helloWorld.query(); in a development
\* build StrictMode mounts, unmounts and mounts again, the effect has no
\* cleanup, and so it runs twice
render ==
  /\ fpc = "listening"
  /\ fpc' = "rendered"
  /\ queries' = [i \in 1..(IF strict THEN 2 ELSE 1) |->
                   [state |-> "pending", message |-> ""]]
  /\ UNCHANGED <<strict, message, console, bvars>>
  /\ FrontendFrame

\* a query resolves: setMessage(trpcData.message)
Resolve(i, m) ==
  /\ fpc = "rendered"
  /\ i \in DOMAIN queries /\ queries[i].state = "pending"
  /\ queries' = [queries EXCEPT ![i] = [state |-> "resolved", message |-> m]]
  /\ message' = m
  /\ UNCHANGED <<fpc, strict, console, bvars>>
  /\ FrontendFrame

\* the unhandledrejection listener (lines 19-31)
OnUnhandledRejection ==
  /\ console' = Append(console,
       FrontendLog(FrontendBase, "error", "window.unhandledRejection",
                   "stack,name", [message |-> "reason"]))
  /\ uncaught' = Append(uncaught, "window.unhandledRejection")

\* a query rejects: getData() was not awaited, so the rejection is unhandled
Reject(i) ==
  /\ fpc = "rendered"
  /\ Len(uncaught) < MaxFailures
  /\ i \in DOMAIN queries /\ queries[i].state = "pending"
  /\ queries' = [queries EXCEPT ![i] = [state |-> "rejected", message |-> ""]]
  /\ OnUnhandledRejection
  /\ UNCHANGED <<fpc, strict, message, bpc, LOG_LEVEL, records, replies>>
  /\ FrontendFrame

\* the error listener (lines 7-17), on an error no script caught
OnWindowError ==
  /\ fpc \in {"listening", "rendered"}
  /\ Len(uncaught) < MaxFailures
  /\ console' = Append(console,
       FrontendLog(FrontendBase, "error", "window.error",
                   "filename,lineno,colno,stack", [message |-> "event.message"]))
  /\ uncaught' = Append(uncaught, "window.error")
  /\ UNCHANGED <<fpc, strict, queries, message, bpc, LOG_LEVEL, records, replies>>
  /\ FrontendFrame

InitFrontend ==
  /\ InitRun(<<>>, <<>>, "none")
  /\ NoRandomport /\ NoMachineSetup /\ NoClone /\ NoSetup
  /\ NoBackend /\ NoLogger /\ NoQueue /\ NoDb
  /\ fpc = "loading" /\ strict \in BOOLEAN /\ queries = <<>> /\ message = ""
  /\ console = <<>>

NextFrontend ==
  \/ \E ok \in BOOLEAN : LoadPage(ok)
  \/ render
  \/ \E i \in 1..2, m \in Payloads : Resolve(i, m)
  \/ \E i \in 1..2 : Reject(i)
  \/ OnWindowError

SpecFrontend == InitFrontend /\ [][NextFrontend]_vars

\* C22: once App is mounted exactly one helloWorld query has been issued;
\* the page shows the empty message until that query resolves, and the
\* message it resolved with afterwards.
C22_OneQueryThenItsMessage ==
  fpc = "rendered" =>
    /\ Len(queries) = 1
    /\ queries[1].state # "resolved" => message = ""
    /\ queries[1].state = "resolved" => message = queries[1].message

-----------------------------------------------------------------------------
(* apps/backend: the process-level handlers and the Fastify error handler *)

\* the exceptions a request or the process may raise: statusCode 0 is an
\* exception without a numeric statusCode property
Exceptions ==
  [name : {"Error", "AppError"},
   message : {"connect ECONNREFUSED 10.0.0.5:5432", "Not found"},
   statusCode : {0, 404}]

\* const baseLogger = createLogger({ source: { service: "backend", env } })
BackendBase == [source |-> "service=backend"]

BackendFrame ==
  UNCHANGED <<args, SLUG, DISPLAY_NAME, DESCRIPTION, EMOJI, BACKEND_PORT,
              FRONTEND_PORT, FAVICON_B64, pc, status, out, fs, fs0, runs,
              rvars, svars, mvars, gvars, fvars, lvars, qvars, dvars>>

\* index.ts's imports are evaluated before its body: config.ts parses
\* process.env and throws when BACKEND_PORT or FRONTEND_URL is missing, which
\* ends the process; otherwise the body registers the handlers and listens
LoadBackend(ok) ==
  /\ bpc = "loading"
  /\ IF ok
       THEN bpc' = "running" /\ UNCHANGED uncaught
       ELSE /\ bpc' = "exited"
            /\ uncaught' = Append(uncaught, "process.uncaughtException")
  /\ UNCHANGED <<LOG_LEVEL, records, replies>>
  /\ BackendFrame

\* process.on("uncaughtException"): log, then process.exit(1)
OnUncaughtException(err) ==
  /\ bpc = "running"
  /\ Len(uncaught) < MaxFailures
  /\ records' = Write(BackendLog(BackendBase, "error", "process.uncaughtException",
                                 "stack,name", [message |-> err.message]))
  /\ uncaught' = Append(uncaught, "process.uncaughtException")
  /\ bpc' = "exited"
  /\ UNCHANGED <<LOG_LEVEL, replies>>
  /\ BackendFrame

\* process.on("unhandledRejection"): log; the process goes on
OnProcessUnhandledRejection(err) ==
  /\ bpc = "running"
  /\ Len(uncaught) < MaxFailures
  /\ records' = Write(BackendLog(BackendBase, "error", "process.unhandledRejection",
                                 "stack,name", [message |-> err.message]))
  /\ uncaught' = Append(uncaught, "process.unhandledRejection")
  /\ UNCHANGED <<bpc, LOG_LEVEL, replies>>
  /\ BackendFrame

\* reply.status(statusCode).send({ error: error.message })
Reply(err) ==
  [status |-> IF err.statusCode # 0 THEN err.statusCode ELSE 500,
   body |-> [error |-> err.message]]

\* app.setErrorHandler, on an exception raised while a request is handled
setErrorHandler(err) ==
  /\ bpc = "running"
  /\ Len(uncaught) < MaxFailures
  /\ records' = Write(BackendLog(BackendBase, "error", "http.error",
                                 "stack,name,code",
                                 [message |-> err.message,
                                  http |-> "method,route,status"]))
  /\ replies' = replies \cup { <<err, Reply(err)>> }
  /\ uncaught' = Append(uncaught, "http.error")
  /\ UNCHANGED <<bpc, LOG_LEVEL>>
  /\ BackendFrame

InitBackend ==
  /\ InitRun(<<>>, <<>>, "none")
  /\ NoRandomport /\ NoMachineSetup /\ NoClone /\ NoSetup
  /\ NoFrontend /\ NoLogger /\ NoQueue /\ NoDb
  /\ bpc = "loading" /\ LOG_LEVEL \in {"info", "error", "silent"}
  /\ records = <<>> /\ replies = {} /\ uncaught = <<>>

NextBackend ==
  \/ \E ok \in BOOLEAN : LoadBackend(ok)
  \/ \E err \in Exceptions : OnUncaughtException(err)
  \/ \E err \in Exceptions : OnProcessUnhandledRejection(err)
  \/ \E err \in Exceptions : setErrorHandler(err)

SpecBackend == InitBackend /\ [][NextBackend]_vars

\* C23: the reply to a request that raised an exception other than an
\* AppError does not depend on the exception's message: two such
\* exceptions that differ only in their message get the same reply.
C23_ReplyIndependentOfMessage ==
  \A p, q \in replies :
    ( /\ p[1].name # "AppError" /\ q[1].name = p[1].name
      /\ q[1].statusCode = p[1].statusCode ) => p[2] = q[2]

\* the event types of the uncaught failures
FailureEvents ==
  { "http.error", "process.uncaughtException", "process.unhandledRejection",
    "window.error", "window.unhandledRejection" }

\* C24: every uncaught failure that has happened, in the backend or in the
\* browser, has its own error-level log entry with its event type, also
\* when the process has exited.
C24_EveryFailureLogged ==
  \A t \in FailureEvents :
    Cardinality(ErrorEntries(records \o console, t)) = Happened(t)

-----------------------------------------------------------------------------
(* A call on a child logger *)

\* the metadata objects of the calls followed: any of these keys, each with
\* one of its values (LogMeta; a nested source object is one value)
MetaValues ==
  [source |-> {"service=backend", "module=queue"},
   message |-> {"from the base", "from the call"},
   userId |-> {"u1"}]
Metadata ==
  UNION { [keys -> UNION { MetaValues[k] : k \in keys }] : keys \in SUBSET DOMAIN MetaValues }
LogMeta == { o \in Metadata : \A k \in DOMAIN o : o[k] \in MetaValues[k] }

LoggerFrame ==
  UNCHANGED <<args, SLUG, DISPLAY_NAME, DESCRIPTION, EMOJI, BACKEND_PORT,
              FRONTEND_PORT, FAVICON_B64, pc, status, out, fs, fs0, runs,
              rvars, svars, mvars, gvars, lvars, qvars, dvars, fpc, strict,
              queries, message, bpc, LOG_LEVEL, replies, uncaught>>

\* createLogger(baseMeta).child(childMeta)[level](eventType, details, meta),
\* the server package's logger
BackendChildLog(level) ==
  /\ records = <<>> /\ console = <<>>
  /\ records' = Write(BackendLog(child(baseMeta, childMeta), level, eventType,
                                 details, meta))
  /\ UNCHANGED console
  /\ LoggerFrame

\* the same call on the frontend's logger
FrontendChildLog(level) ==
  /\ records = <<>> /\ console = <<>>
  /\ console' = Append(console, FrontendLog(child(baseMeta, childMeta), level,
                                            eventType, details, meta))
  /\ UNCHANGED records
  /\ LoggerFrame

InitLogger ==
  /\ InitRun(<<>>, <<>>, "none")
  /\ NoRandomport /\ NoMachineSetup /\ NoClone /\ NoSetup
  /\ NoFrontend /\ NoBackend /\ NoQueue /\ NoDb
  /\ baseMeta \in LogMeta /\ childMeta \in LogMeta /\ meta \in LogMeta
  /\ eventType \in {"job.started", "job.failed"}
  /\ details \in {"jobId", "attempt"}

NextLogger ==
  \E level \in {"info", "error"} : BackendChildLog(level) \/ FrontendChildLog(level)

SpecLogger == InitLogger /\ [][NextLogger]_vars

\* the value of key k in the call's, else the child's, else the base metadata
FirstOf(k) ==
  IF k \in DOMAIN meta THEN meta[k]
  ELSE IF k \in DOMAIN childMeta THEN childMeta[k] ELSE baseMeta[k]
MetaKeys == DOMAIN baseMeta \cup DOMAIN childMeta \cup DOMAIN meta
Logged == records \o console

-----------------------------------------------------------------------------
(* The queue extension: queue.ts, queues.ts and worker.ts of docs/extensions/bull.md *)

\* MaxConnections Redis connections are created in a run
MaxConnections == 4

QueueFrame ==
  UNCHANGED <<args, SLUG, DISPLAY_NAME, DESCRIPTION, EMOJI, BACKEND_PORT,
              FRONTEND_PORT, FAVICON_B64, pc, status, out, fs, fs0, runs,
              rvars, svars, mvars, gvars, fvars, bvars, lvars, dvars>>

\* getQueueConnection(): the connection it returns, and the connections
\* there are afterwards (new Redis(...) when queueConnection is null).  A
\* connection is its index in connections.
Connection == IF queueConnection = 0 THEN Len(connections) + 1 ELSE queueConnection
Connected == IF queueConnection = 0 THEN Append(connections, "open") ELSE connections
MayConnect == queueConnection # 0 \/ Len(connections) < MaxConnections

getQueueConnection ==
  /\ MayConnect
  /\ queueConnection' = Connection
  /\ connections' = Connected
  /\ UNCHANGED <<myQueue, worker, cpc, spc>>
  /\ QueueFrame

\* getMyQueue(): new Queue("myQueueName", { connection: getQueueConnection() })
\* when myQueue is null.  A queue is the connection it was constructed with.
getMyQueue ==
  /\ MayConnect
  /\ IF myQueue = 0
       THEN /\ myQueue' = Connection
            /\ queueConnection' = Connection
            /\ connections' = Connected
       ELSE UNCHANGED <<myQueue, queueConnection, connections>>
  /\ UNCHANGED <<worker, cpc, spc>>
  /\ QueueFrame

\* startWorker(): returns the worker there is, or constructs one on
\* getMyQueue().name and getQueueConnection()
startWorker ==
  /\ MayConnect
  /\ IF worker # 0
       THEN UNCHANGED <<worker, myQueue, queueConnection, connections>>
       ELSE /\ myQueue' = IF myQueue = 0 THEN Connection ELSE myQueue
            /\ queueConnection' = Connection
            /\ connections' = Connected
            /\ worker' = Connection
  /\ UNCHANGED <<cpc, spc>>
  /\ QueueFrame

\* closeQueueConnection() up to its await: queueConnection.quit() is sent
closeQueueConnection ==
  /\ cpc = 0 /\ spc \in {"idle", "close"}
  /\ queueConnection # 0
  /\ connections' = [connections EXCEPT ![queueConnection] = "closing"]
  /\ cpc' = queueConnection
  /\ UNCHANGED <<queueConnection, myQueue, worker, spc>>
  /\ QueueFrame

\* quit() resolved: queueConnection = null; a stopWorker() that awaited this
\* closeQueueConnection() goes on to worker = null
QuitResolved ==
  /\ cpc # 0
  /\ connections' = [connections EXCEPT ![cpc] = "closed"]
  /\ queueConnection' = 0
  /\ cpc' = 0
  /\ IF spc = "quit" THEN worker' = 0 /\ spc' = "idle" ELSE UNCHANGED <<worker, spc>>
  /\ UNCHANGED myQueue
  /\ QueueFrame

\* stopWorker() up to await worker.close()
stopWorker ==
  /\ spc = "idle"
  /\ worker # 0
  /\ spc' = "close"
  /\ UNCHANGED <<queueConnection, myQueue, worker, connections, cpc>>
  /\ QueueFrame

\* worker.close() resolved: stopWorker() calls closeQueueConnection(), which
\* returns at once when queueConnection is null
WorkerClosed ==
  /\ spc = "close" /\ cpc = 0
  /\ IF queueConnection # 0
       THEN /\ connections' = [connections EXCEPT ![queueConnection] = "closing"]
            /\ cpc' = queueConnection
            /\ spc' = "quit"
            /\ UNCHANGED worker
       ELSE /\ worker' = 0
            /\ spc' = "idle"
            /\ UNCHANGED <<connections, cpc>>
  /\ UNCHANGED <<queueConnection, myQueue>>
  /\ QueueFrame

InitQueue ==
  /\ InitRun(<<>>, <<>>, "none")
  /\ NoRandomport /\ NoMachineSetup /\ NoClone /\ NoSetup
  /\ NoFrontend /\ NoBackend /\ NoLogger /\ NoDb
  /\ queueConnection = 0 /\ myQueue = 0 /\ worker = 0 /\ connections = <<>>
  /\ cpc = 0 /\ spc = "idle"

NextQueue ==
  \/ getQueueConnection \/ getMyQueue \/ startWorker
  \/ closeQueueConnection \/ QuitResolved
  \/ stopWorker \/ WorkerClosed

SpecQueue == InitQueue /\ [][NextQueue]_vars

OpenConnections == { c \in DOMAIN connections : connections[c] = "open" }

\* C26: at most one connection is open, and the queue getMyQueue returns
\* is bound to the connection getQueueConnection returns, which is not closed.
C26_SharedConnection ==
  /\ Cardinality(OpenConnections) <= 1
  /\ myQueue # 0 => myQueue = queueConnection /\ connections[myQueue] # "closed"

-----------------------------------------------------------------------------
(* The document-store extension: db.ts of docs/extensions/mongodb.md *)

\* MaxCalls calls of getMongoClient are made in a run
MaxCalls == 3

DbFrame ==
  UNCHANGED <<args, SLUG, DISPLAY_NAME, DESCRIPTION, EMOJI, BACKEND_PORT,
              FRONTEND_PORT, FAVICON_B64, pc, status, out, fs, fs0, runs,
              rvars, svars, mvars, gvars, fvars, bvars, lvars, qvars>>

\* a call that has resolved with the value of `client`, and whether that
\* client's connect() had completed successfully by then
Resolved(c, all) ==
  [state |-> "resolved", awaits |-> 0, result |-> c,
   connected |-> c # 0 /\ all[c] = "connected"]

\* getMongoClient(url) up to its first await: `if (client) return client`,
\* else client = new MongoClient(url) and connect() is started.  A client
\* is its index in clients.
getMongoClient ==
  /\ Len(calls) < MaxCalls
  /\ IF client # 0
       THEN /\ calls' = Append(calls, Resolved(client, clients))
            /\ UNCHANGED <<client, clients, created>>
       ELSE /\ client' = Len(clients) + 1
            /\ clients' = Append(clients, "connecting")
            /\ created' = created + 1
            /\ calls' = Append(calls, [state |-> "connecting",
                                       awaits |-> Len(clients) + 1,
                                       result |-> 0, connected |-> FALSE])
  /\ UNCHANGED dpc
  /\ DbFrame

\* connect() resolved: the call goes on to `return client`
ConnectResolved(i) ==
  /\ i \in DOMAIN calls /\ calls[i].state = "connecting"
  /\ clients[calls[i].awaits] = "connecting"
  /\ clients' = [clients EXCEPT ![calls[i].awaits] = "connected"]
  /\ calls' = [calls EXCEPT ![i] = Resolved(client, clients')]
  /\ UNCHANGED <<client, dpc, created>>
  /\ DbFrame

\* connect() rejected: the call rejects, and `client` keeps the client
ConnectRejected(i) ==
  /\ i \in DOMAIN calls /\ calls[i].state = "connecting"
  /\ clients' = [clients EXCEPT ![calls[i].awaits] =
                   IF @ = "connecting" THEN "failed" ELSE @]
  /\ calls' = [calls EXCEPT ![i].state = "rejected"]
  /\ UNCHANGED <<client, dpc, created>>
  /\ DbFrame

\* closeDb() up to its await: client.close() is started
closeDb ==
  /\ dpc = 0
  /\ client # 0
  /\ dpc' = client
  /\ UNCHANGED <<client, clients, calls, created>>
  /\ DbFrame

\* close() resolved: client = null
CloseResolved ==
  /\ dpc # 0
  /\ clients' = [clients EXCEPT ![dpc] = "closed"]
  /\ client' = 0
  /\ dpc' = 0
  /\ created' = 0
  /\ UNCHANGED calls
  /\ DbFrame

InitDb ==
  /\ InitRun(<<>>, <<>>, "none")
  /\ NoRandomport /\ NoMachineSetup /\ NoClone /\ NoSetup
  /\ NoFrontend /\ NoBackend /\ NoLogger /\ NoQueue
  /\ client = 0 /\ clients = <<>> /\ calls = <<>> /\ dpc = 0 /\ created = 0

NextDb ==
  \/ getMongoClient
  \/ \E i \in 1..MaxCalls : ConnectResolved(i) \/ ConnectRejected(i)
  \/ closeDb \/ CloseResolved

SpecDb == InitDb /\ [][NextDb]_vars

\* C27: a getMongoClient call resolves only to a client whose connect()
\* has completed successfully, and at most one MongoClient has been
\* created since the last closeDb.
C27_ConnectedClientOnly ==
  /\ \A i \in DOMAIN calls : calls[i].state = "resolved" => calls[i].connected
  /\ created <= 1

-----------------------------------------------------------------------------
(* The full setup: its clone step *)

-----------------------------------------------------------------------------
(* Verification: the setup guide *)

\* the setup guide was in the working copy and no longer is
GuideDeleted == SetupGuide \in DOMAIN fs0 /\ SetupGuide \notin DOMAIN fs

\* C29: PROJECT_SETUP_GUIDE.md is deleted only after the smoke test passed
\* and `zap stop` succeeded, leaving the services down; a verification
\* that exits non-zero leaves the file where it was.
C29_GuideDeletedOnlyOnSuccess ==
  /\ GuideDeleted =>
       /\ Succeeded("zap t smoke") /\ Succeeded("zap stop")
       /\ services = "down"
  /\ (VerifyExited /\ vstatus # 0) => ~GuideDeleted

\* a verification has passed and deleted the guide
C29_Witness ==
  /\ VerifyExited /\ vstatus = 0
  /\ GuideDeleted

-----------------------------------------------------------------------------
(* Identity substitution: the description *)

\* the descriptions of the second of two runs compared
OtherDescriptions == { <<>>, <<"R", "&", "D">>, <<"tools ", "/", " demos">> }

\* the working copy both runs start on
StartCopy(slug) == Checkout(slug, DefaultEnv, TRUE, FALSE, TRUE)

\* the transform has ended: run it again with the same slug, display name
\* and emoji and another description on a fresh copy of the same working
\* copy, keeping what the first run left in fs0
RunWithOtherDescription(d) ==
  /\ pc = "exit"
  /\ args[3] \notin OtherDescriptions
  /\ args' = [args EXCEPT ![3] = d]
  /\ fs0' = fs
  /\ fs' = StartCopy(args[1])
  /\ SLUG' = Unset /\ DISPLAY_NAME' = Unset /\ DESCRIPTION' = Unset /\ EMOJI' = Unset
  /\ BACKEND_PORT' = 0 /\ FRONTEND_PORT' = 0 /\ FAVICON_B64' = Unset
  /\ pc' = "L5"
  /\ status' = -1
  /\ out' = <<>>
  /\ UNCHANGED <<runs, others>>

InitDescription ==
  /\ \E a \in FullArgs : InitRun(a, StartCopy(a[1]), "L5")
  /\ NoRandomport
  /\ NoMachineSetup
  /\ NoClone
  /\ NoApp
  /\ NoSetup

NextDescription ==
  \/ transform_project(FixedDraw)
  \/ \E d \in OtherDescriptions : RunWithOtherDescription(d)

SpecDescription == InitDescription /\ [][NextDescription]_vars

\* the run with the other description has ended
SecondRunExited == pc = "exit" /\ args[3] \in OtherDescriptions

\* C30: two transform runs on the same working copy with the same slug,
\* display name, emoji and port draws and different descriptions leave the
\* same files with the same content.
C30_DescriptionHasNoEffect == SecondRunExited => fs = fs0

\* two runs with different descriptions have completed and rewritten the
\* working copy
C30_Witness ==
  /\ SecondRunExited /\ status = 0 /\ runs = 2
  /\ args[3] = <<"R", "&", "D">>
  /\ fs # StartCopy(args[1])

====
